---- MODULE Spec2Model ----
(***************************************************************************)
(* Quest manager of the side-quest conquest script: the registry of active *)
(* quest instances, the routing of game events to instances, the update    *)
(* and completion pipeline, and the token-guarded timed speed perk.        *)
(*                                                                         *)
(* Spec      : the synchronous QuestManager with the tracked-player list.  *)
(* SpecSpeed : applyTemporarySpeedMultiplier and its delayed reverts.      *)
(***************************************************************************)
EXTENDS Integers, Sequences, FiniteSets, TLC

VARIABLES
    inst,               \* every QuestInstance ever constructed, by id
    activeQuests,       \* QuestManager.activeQuests (ids, in list order)
    pastQuests,         \* QuestManager.pastQuests (ids, in list order)
    activeGlobalQuest,  \* QuestManager.activeGlobalQuest (id, Undefined when empty)
    nextId,             \* QuestInstance.nextId
    life,               \* per instance: what has run and been reported for it so far
    g_activePlayers,    \* the tracked players (object references, in list order)
    g_playerSpeedTokens,\* player id -> recorded token (Undefined when absent)
    g_nextSpeedToken,   \* next token to issue
    speedMultiplier,    \* player id -> multiplier in tenths (10 = 1.0)
    timers,             \* pending mod.Wait continuations, in scheduling order
    applied,            \* per issued token: the application that drew it
    calls,              \* asynchronous variant: the suspended method calls, in resumption order
    gameMode            \* OnGameModeStarted: "idle" before the call, "waiting" in its mod.Wait, "started" after

qvars == <<inst, activeQuests, pastQuests, activeGlobalQuest, nextId, life,
           g_activePlayers>>
svars == <<g_playerSpeedTokens, g_nextSpeedToken, speedMultiplier, timers, applied>>
vars == <<inst, activeQuests, pastQuests, activeGlobalQuest, nextId, life,
          g_activePlayers, g_playerSpeedTokens, g_nextSpeedToken, speedMultiplier,
          timers, applied, calls, gameMode>>

----------------------------------------------------------------------------
\* Bounds of the model.

\* Quest instances constructed in one run.
MaxInstances == 2
\* Speed tokens issued in one run.
MaxTokens == 3

\* JavaScript's undefined, for object references and numbers alike.
Undefined == 0

----------------------------------------------------------------------------
\* The engine's objects.

\* Player object references; references 1 and 3 stand for the same player.
PlayerRefs == {1, 2, 3}

\* mod.GetObjId of a player reference.
GetObjId(p) == IF p = 3 THEN 1 ELSE p

PlayerIds == {GetObjId(p) : p \in PlayerRefs}

Teams == {1, 2}

\* mod.GetTeam of a player reference.
GetTeam(p) == IF GetObjId(p) = 1 THEN 1 ELSE 2

Squads == {1}

\* mod.GetSquad of a player reference (the optional engine capability).
GetSquad(p) == IF GetObjId(p) = 1 THEN 1 ELSE Undefined

\* Whether the engine build offers mod.GetSquad.
HasGetSquad == TRUE

----------------------------------------------------------------------------
\* Enumerations.

NotStarted == "NotStarted"
InProgress == "InProgress"
Completed == "Completed"
Failed == "Failed"
QuestState_Enum == {NotStarted, InProgress, Completed, Failed}

ScopeSquad == "Squad"
ScopePlayer == "Player"
ScopeTeam == "Team"
ScopeGame == "Game"
QuestScope == {ScopeSquad, ScopePlayer, ScopeTeam, ScopeGame}
AllQuestScopes == {ScopeSquad, ScopePlayer, ScopeTeam}

OnPlayerEarnedKill == "OnPlayerEarnedKill"
OnPlayerReceivesDamage == "OnPlayerReceivesDamage"
QuestUpdateSource == {OnPlayerEarnedKill, OnPlayerReceivesDamage}
\* An undefined updateSource.
NoSource == "undefined"

\* Weapon names as character sequences; NoWeapon is an absent eventWeaponUnlock.
NoWeapon == << >>
Sidearm_P18 == <<"S", "i", "d", "e", "a", "r", "m", "_", "P", "1", "8">>
Rifle_M4 == <<"R", "i", "f", "l", "e", "_", "M", "4">>
Weapons == {Sidearm_P18, Rifle_M4, NoWeapon}

\* String.prototype.startsWith.
startsWith(str, prefix) ==
    /\ Len(str) >= Len(prefix)
    /\ SubSeq(str, 1, Len(prefix)) = prefix

\* isPistolWeapon: false without a weapon, else String(weapon).startsWith("Sidearm_").
isPistolWeapon(weapon) ==
    IF weapon = NoWeapon
    THEN FALSE
    ELSE startsWith(weapon, <<"S", "i", "d", "e", "a", "r", "m", "_">>)

----------------------------------------------------------------------------
\* Progress.

\* Math.round of the non-negative rational num / den (halves round up).
Round(num, den) == (2 * num + den) \div (2 * den)

\* The progress counts, up to a target of 400, at which current / target
\* * 100 is exactly halfway between two integers and its double-precision
\* value falls just below the half, so that Math.round rounds it down.
HalvesRoundedDown ==
    {<<23, 40>>, <<46, 80>>, <<69, 120>>, <<92, 160>>, <<29, 200>>,
     <<57, 200>>, <<113, 200>>, <<115, 200>>, <<138, 240>>, <<161, 280>>,
     <<184, 320>>, <<207, 360>>, <<58, 400>>, <<114, 400>>, <<226, 400>>,
     <<230, 400>>}

\* A percent that does not cap the ratio at 1.
percentUncapped(current, target) ==
    IF target <= 0 THEN 0 ELSE Round(100 * current, target)

\* QuestProgress.percent.
percent(current, target) ==
    IF target <= 0
    THEN 0
    ELSE IF current >= target
         THEN 100
         ELSE IF <<current, target>> \in HalvesRoundedDown
              THEN (100 * current) \div target
              ELSE Round(100 * current, target)

\* new QuestProgress(target): current 0, state NotStarted.
QuestProgress(target) ==
    [current |-> 0, target |-> target, state |-> NotStarted]

\* An omitted nextState hint.
NoHint == "undefined"

\* toQuestUpdateResult; nextState is NoHint when the hint is omitted.
toQuestUpdateResult(progress, nextState) ==
    [current |-> progress.current, target |-> progress.target,
     state |-> progress.state, nextState |-> nextState]

\* defaultUpdateResult.
defaultUpdateResult ==
    [current |-> 0, target |-> 1, state |-> NotStarted, nextState |-> NotStarted]

----------------------------------------------------------------------------
\* Perk definitions.  ThrowingPerk is a perk whose apply throws, handed to
\* a template through its own perkPool.

\* A speed boost that is available at Game scope as well.
SpeedBoostPerkForGame ==
    [name |-> "speedBoost", availableScopes |-> QuestScope,
     randomWeight |-> 1, apply |-> "speedBoost"]

SpeedBoostPerkDefinition ==
    [name |-> "speedBoost", availableScopes |-> AllQuestScopes,
     randomWeight |-> 1, apply |-> "speedBoost"]

ThrowingPerkDefinition ==
    [name |-> "throwingPerk", availableScopes |-> QuestScope,
     randomWeight |-> 1, apply |-> "throws"]

\* The global registry of perks.
PerkRegistry == <<SpeedBoostPerkDefinition>>

NoPerk == "none"

----------------------------------------------------------------------------
\* Quest definitions.  update / onStart / onComplete name the behaviour of
\* the callable fields; perkPool is the empty sequence when the template has
\* no pool of its own; defaultTarget is Undefined when the literal omits it.

firstBlood_Quest ==
    [name |-> "firstBlood", availableScope |-> {ScopeGame},
     updateSources |-> {OnPlayerEarnedKill}, defaultTarget |-> Undefined,
     hasPerkPool |-> FALSE, perkPool |-> << >>, disableRandomPerk |-> FALSE,
     update |-> "firstBlood", onStart |-> "none", onComplete |-> "applyPerk"]

pistolKills_Quest ==
    [name |-> "pistolKills", availableScope |-> AllQuestScopes,
     updateSources |-> {OnPlayerEarnedKill}, defaultTarget |-> 10,
     hasPerkPool |-> FALSE, perkPool |-> << >>, disableRandomPerk |-> FALSE,
     update |-> "pistolKills", onStart |-> "none", onComplete |-> "log"]

\* A template whose update throws on every call; on a pistol kill it has
\* written the counted kill to the Progress before it throws.
throwingUpdate_Quest ==
    [name |-> "throwingUpdate", availableScope |-> AllQuestScopes,
     updateSources |-> {OnPlayerEarnedKill}, defaultTarget |-> 2,
     hasPerkPool |-> FALSE, perkPool |-> << >>, disableRandomPerk |-> FALSE,
     update |-> "throws", onStart |-> "none", onComplete |-> "none"]

\* A template that completes through the nextState hint alone and whose
\* onStart and onComplete throw.
throwingCallbacks_Quest ==
    [name |-> "throwingCallbacks", availableScope |-> AllQuestScopes,
     updateSources |-> {OnPlayerEarnedKill}, defaultTarget |-> 1,
     hasPerkPool |-> FALSE, perkPool |-> << >>, disableRandomPerk |-> TRUE,
     update |-> "hintOnly", onStart |-> "throws", onComplete |-> "throws"]

\* A template that completes through the returned state alone, whose bound
\* perk throws in apply and whose onComplete logs.
throwingPerk_Quest ==
    [name |-> "throwingPerk", availableScope |-> AllQuestScopes,
     updateSources |-> {OnPlayerEarnedKill}, defaultTarget |-> 1,
     hasPerkPool |-> TRUE, perkPool |-> <<ThrowingPerkDefinition>>,
     disableRandomPerk |-> FALSE,
     update |-> "stateOnly", onStart |-> "none", onComplete |-> "log"]

QuestDefinitions ==
    {firstBlood_Quest, pistolKills_Quest, throwingUpdate_Quest,
     throwingCallbacks_Quest, throwingPerk_Quest}

\* The template of a given name.
QuestDefinition(name) == CHOOSE d \in QuestDefinitions : d.name = name

\* The perk definition of a given name.
PerkDefinition(name) ==
    CHOOSE d \in {SpeedBoostPerkDefinition, ThrowingPerkDefinition} : d.name = name

----------------------------------------------------------------------------
\* Weighted selection.

\* Random draws are taken in steps of 1 / RollScale.
RollScale == 2

\* def.randomWeight ?? 1: a definition without the field weighs 1.
WeightOf(def) ==
    IF "randomWeight" \in DOMAIN def THEN def.randomWeight ELSE 1

RECURSIVE SumWeights(_, _)
\* definitions.reduce((sum, def) => sum + (def.randomWeight ?? 1), 0), from index i.
SumWeights(definitions, i) ==
    IF i > Len(definitions)
    THEN 0
    ELSE WeightOf(definitions[i]) + SumWeights(definitions, i + 1)

\* The draws Math.random() * (totalWeight <= 0 ? 1 : totalWeight) can give,
\* in units of 1 / RollScale.
Rolls(definitions) ==
    LET totalWeight == SumWeights(definitions, 1)
    IN 0 .. ((IF totalWeight <= 0 THEN 1 ELSE totalWeight) * RollScale - 1)

RECURSIVE WalkWeights(_, _, _)
\* The loop of pickWeightedPerk from index i with the remaining roll.
WalkWeights(definitions, i, roll) ==
    IF i > Len(definitions)
    THEN definitions[Len(definitions)]
    ELSE LET rest == roll - WeightOf(definitions[i]) * RollScale
         IN IF rest <= 0
            THEN definitions[i]
            ELSE WalkWeights(definitions, i + 1, rest)

\* A selection that always returns the first definition.
pickWeightedPerkFirst(definitions, roll) == definitions[1]

\* pickWeightedPerk with the draw made explicit.
pickWeightedPerk(definitions, roll) == WalkWeights(definitions, 1, roll)

\* pickRandomQuestForScope returns undefined.
NoQuest == [name |-> "none"]

\* The draws Math.random() * (totalWeight > 0 ? totalWeight : 1) can give,
\* in units of 1 / RollScale.
QuestRolls(eligible) ==
    LET totalWeight == SumWeights(eligible, 1)
    IN 0 .. ((IF totalWeight > 0 THEN totalWeight ELSE 1) * RollScale - 1)

RECURSIVE WalkEligibleStrict(_, _, _)
\* A walk that returns only once the remaining roll is below zero.
WalkEligibleStrict(eligible, i, roll) ==
    IF i > Len(eligible)
    THEN eligible[Len(eligible)]
    ELSE IF roll - WeightOf(eligible[i]) * RollScale < 0
         THEN eligible[i]
         ELSE WalkEligibleStrict(eligible, i + 1,
                                 roll - WeightOf(eligible[i]) * RollScale)

RECURSIVE WalkEligible(_, _, _)
\* The loop of pickRandomQuestForScope from index i with the remaining roll.
WalkEligible(eligible, i, roll) ==
    IF i > Len(eligible)
    THEN eligible[Len(eligible)]
    ELSE IF roll - WeightOf(eligible[i]) * RollScale <= 0
         THEN eligible[i]
         ELSE WalkEligible(eligible, i + 1, roll - WeightOf(eligible[i]) * RollScale)

\* The templates of a registry that list the scope.
EligibleQuests(registry, scope) ==
    SelectSeq(registry, LAMBDA def : scope \in def.availableScope)

\* pickRandomQuestForScope over a given registry, the draw made explicit.
pickRandomQuestForScope(registry, scope, roll) ==
    LET eligible == EligibleQuests(registry, scope)
    IN IF Len(eligible) = 0
       THEN NoQuest
       ELSE WalkEligible(eligible, 1, roll)

\* The perks of pickPerkForQuest's pool that list the scope.
EligiblePerks(questDef, scope) ==
    LET pool == IF questDef.hasPerkPool THEN questDef.perkPool ELSE PerkRegistry
    IN SelectSeq(pool, LAMBDA def : scope \in def.availableScopes)

\* A pickPerkForQuest that draws from the whole pool, whatever the scope.
pickPerkForQuestAnyScope(questDef, scope, roll) ==
    LET pool == IF questDef.hasPerkPool THEN questDef.perkPool ELSE PerkRegistry
    IN IF Len(pool) = 0
       THEN NoPerk
       ELSE pickWeightedPerk(pool, roll).name

\* pickPerkForQuest: the name of the chosen perk, NoPerk when none is eligible.
pickPerkForQuest(questDef, scope, roll) ==
    LET eligible == EligiblePerks(questDef, scope)
    IN IF Len(eligible) = 0
       THEN NoPerk
       ELSE pickWeightedPerk(eligible, roll).name

----------------------------------------------------------------------------
\* Contexts and what a manager call emits.

\* A QuestContext as a caller passes it; absent fields are Undefined.
QuestContext(eventPlayer, eventSquad, eventTeam, eventWeaponUnlock) ==
    [eventPlayer |-> eventPlayer, eventSquad |-> eventSquad,
     eventTeam |-> eventTeam, eventWeaponUnlock |-> eventWeaponUnlock,
     updateSource |-> NoSource]

\* Nothing emitted yet: notifications to the UI collaborator (started,
\* progress, completed), error reports (errors), perk applications (perks)
\* and onComplete invocations.
NoOutput ==
    [started |-> << >>, progress |-> << >>, completed |-> << >>,
     errors |-> << >>, perks |-> << >>, onCompletes |-> << >>]

\* A QuestInstance whose Progress takes defaultTarget as it is, without the
\* default of 1 for a template that omits it.
QuestInstanceTargetAsGiven(id, questDef, scope, ctx) ==
    [id |-> id, quest |-> questDef.name, scope |-> scope,
     perkInstance |-> NoPerk,
     player |-> IF scope = ScopePlayer THEN ctx.eventPlayer ELSE Undefined,
     squad |-> IF scope = ScopeSquad THEN ctx.eventSquad ELSE Undefined,
     team |-> IF scope = ScopeTeam THEN ctx.eventTeam ELSE Undefined,
     currentProgress |-> QuestProgress(questDef.defaultTarget)]

\* new QuestInstance(def, scope, ctx) with the given id.
QuestInstance(id, questDef, scope, ctx) ==
    [id |-> id, quest |-> questDef.name, scope |-> scope,
     perkInstance |-> NoPerk,
     player |-> IF scope = ScopePlayer THEN ctx.eventPlayer ELSE Undefined,
     squad |-> IF scope = ScopeSquad THEN ctx.eventSquad ELSE Undefined,
     team |-> IF scope = ScopeTeam THEN ctx.eventTeam ELSE Undefined,
     currentProgress |->
        QuestProgress(IF questDef.defaultTarget = Undefined
                      THEN 1
                      ELSE questDef.defaultTarget)]

\* What has happened to one instance so far: how often completion handling,
\* the perk's apply and onComplete have run, whether updatePlayer has run the
\* update pipeline on it ("ran"), has only collected and skipped it
\* ("skipped") or neither ("never"), the callbacks whose failure has been
\* reported, whether the active set held the instance whenever completion
\* handling applied its perk and whenever onComplete was invoked, and
\* whether history held it whenever onComplete was invoked.
NoLife ==
    [completions |-> 0, perkApplies |-> 0, onCompletes |-> 0,
     pipeline |-> "never", errors |-> {},
     perkWhileActive |-> TRUE, onCompleteWhileActive |-> FALSE,
     onCompleteInHistory |-> TRUE]

\* Instance id is in the active list or holds the Game slot.
IsActive(m, id) ==
    \/ \E i \in 1 .. Len(m.activeQuests) : m.activeQuests[i] = id
    \/ m.activeGlobalQuest = id

\* Instance id is in history.
IsPast(m, id) == \E i \in 1 .. Len(m.pastQuests) : m.pastQuests[i] = id

----------------------------------------------------------------------------
\* Scope resolution.

\* A scope resolution that answers a Player instance with its bound player,
\* tracked or not.
playersMatchingQuestUntracked(q, players, getSquad) ==
    IF q.scope = ScopeGame
    THEN players
    ELSE IF q.scope = ScopePlayer /\ q.player # Undefined
    THEN <<q.player>>
    ELSE IF q.scope = ScopeTeam /\ q.team # Undefined
    THEN SelectSeq(players, LAMBDA x : GetTeam(x) = q.team)
    ELSE IF q.scope = ScopeSquad /\ q.squad # Undefined
    THEN IF ~getSquad
         THEN << >>
         ELSE SelectSeq(players, LAMBDA x : GetSquad(x) = q.squad)
    ELSE << >>

\* playersMatchingQuest over the tracked players, in an engine build that
\* offers mod.GetSquad (getSquad) or does not.
playersMatchingQuestIn(q, players, getSquad) ==
    IF q.scope = ScopeGame
    THEN players
    ELSE IF q.scope = ScopePlayer /\ q.player # Undefined
    THEN LET found == SelectSeq(players,
                        LAMBDA x : GetObjId(x) = GetObjId(q.player))
         IN IF Len(found) > 0 THEN <<found[1]>> ELSE << >>
    ELSE IF q.scope = ScopeTeam /\ q.team # Undefined
    THEN SelectSeq(players, LAMBDA x : GetTeam(x) = q.team)
    ELSE IF q.scope = ScopeSquad /\ q.squad # Undefined
    THEN IF ~getSquad
         THEN << >>
         ELSE SelectSeq(players, LAMBDA x : GetSquad(x) = q.squad)
    ELSE << >>

\* playersMatchingQuest in the engine build of the model.
playersMatchingQuest(q, players) == playersMatchingQuestIn(q, players, HasGetSquad)

----------------------------------------------------------------------------
\* Template behaviour.  A call of update yields: threw (it raised), progress
\* (the instance's Progress as the call left it, updates write it in place)
\* and result (the returned QuestUpdateResult).

\* An update function whose pistol counter completes one kill late (a strict
\* comparison with the target).
UpdateFnStrict(kind, progress, ctx) ==
    CASE kind = "firstBlood" ->
            LET done == [progress EXCEPT !.current = progress.target,
                                         !.state = Completed]
            IN [threw |-> FALSE, progress |-> done,
                result |-> toQuestUpdateResult(done, Completed)]
      [] kind = "pistolKills" ->
            IF progress.state = Completed
            THEN [threw |-> FALSE, progress |-> progress,
                  result |-> toQuestUpdateResult(progress, Completed)]
            ELSE IF ~isPistolWeapon(ctx.eventWeaponUnlock)
            THEN [threw |-> FALSE, progress |-> progress,
                  result |-> toQuestUpdateResult(progress, NoHint)]
            ELSE LET current == IF progress.current + 1 < progress.target
                                THEN progress.current + 1
                                ELSE progress.target
                     completed == current > progress.target
                     next == [progress EXCEPT
                                !.current = current,
                                !.state = IF completed THEN Completed ELSE @]
                 IN [threw |-> FALSE, progress |-> next,
                     result |-> toQuestUpdateResult(next,
                                   IF completed THEN Completed ELSE NoHint)]
      [] kind = "throws" ->
            [threw |-> TRUE,
             progress |-> IF isPistolWeapon(ctx.eventWeaponUnlock)
                          THEN [progress EXCEPT !.current =
                                   IF @ + 1 < progress.target
                                   THEN @ + 1 ELSE progress.target]
                          ELSE progress,
             result |-> defaultUpdateResult]
      [] kind = "hintOnly" ->
            [threw |-> FALSE, progress |-> progress,
             result |-> toQuestUpdateResult(progress, Completed)]
      [] kind = "stateOnly" ->
            [threw |-> FALSE, progress |-> progress,
             result |-> [current |-> progress.target, target |-> progress.target,
                         state |-> Completed, nextState |-> NoHint]]
      [] OTHER ->
            [threw |-> FALSE, progress |-> progress, result |-> defaultUpdateResult]

\* quest.update(questCtx), by the template's update function.
UpdateFn(kind, progress, ctx) ==
    CASE kind = "firstBlood" ->
            LET done == [progress EXCEPT !.current = progress.target,
                                         !.state = Completed]
            IN [threw |-> FALSE, progress |-> done,
                result |-> toQuestUpdateResult(done, Completed)]
      [] kind = "pistolKills" ->
            IF progress.state = Completed
            THEN [threw |-> FALSE, progress |-> progress,
                  result |-> toQuestUpdateResult(progress, Completed)]
            ELSE IF ~isPistolWeapon(ctx.eventWeaponUnlock)
            THEN [threw |-> FALSE, progress |-> progress,
                  result |-> toQuestUpdateResult(progress, NoHint)]
            ELSE LET current == IF progress.current + 1 < progress.target
                                THEN progress.current + 1
                                ELSE progress.target
                     completed == current >= progress.target
                     next == [progress EXCEPT
                                !.current = current,
                                !.state = IF completed THEN Completed ELSE @]
                 IN [threw |-> FALSE, progress |-> next,
                     result |-> toQuestUpdateResult(next,
                                   IF completed THEN Completed ELSE NoHint)]
      [] kind = "throws" ->
            [threw |-> TRUE,
             progress |-> IF isPistolWeapon(ctx.eventWeaponUnlock)
                          THEN [progress EXCEPT !.current =
                                   IF @ + 1 < progress.target
                                   THEN @ + 1 ELSE progress.target]
                          ELSE progress,
             result |-> defaultUpdateResult]
      [] kind = "hintOnly" ->
            [threw |-> FALSE, progress |-> progress,
             result |-> toQuestUpdateResult(progress, Completed)]
      [] kind = "stateOnly" ->
            [threw |-> FALSE, progress |-> progress,
             result |-> [current |-> progress.target, target |-> progress.target,
                         state |-> Completed, nextState |-> NoHint]]
      [] OTHER ->
            [threw |-> FALSE, progress |-> progress, result |-> defaultUpdateResult]

----------------------------------------------------------------------------
\* QuestManager.  Its methods are operators on the manager state m:
\* inst, activeQuests, pastQuests, activeGlobalQuest, nextId, life and out
\* (what the current call has emitted so far).

\* Log(message, player, name, id, err) in a catch block: the failure of
\* callback stage of instance id is reported when the player is given.
reportError(m, player, id, stage) ==
    IF player # Undefined
    THEN [m EXCEPT !.out.errors = Append(@, [id |-> id, stage |-> stage]),
                   !.life[id].errors = @ \cup {stage}]
    ELSE m

\* this.notifyQuestStart
notifyQuestStart(m, id) ==
    [m EXCEPT !.out.started = Append(@, id)]

\* A notifyQuestProgress without the test on the percent.
notifyQuestProgressUnfiltered(m, id, previousPercent, nextPercent) ==
    [m EXCEPT !.out.progress =
        Append(@, [id |-> id, previous |-> previousPercent,
                   next |-> nextPercent])]

\* this.notifyQuestProgress: nothing when the percent did not move.
notifyQuestProgress(m, id, previousPercent, nextPercent) ==
    IF nextPercent = previousPercent
    THEN m
    ELSE [m EXCEPT !.out.progress =
            Append(@, [id |-> id, previous |-> previousPercent,
                       next |-> nextPercent])]

\* this.notifyQuestCompletion
notifyQuestCompletion(m, id) ==
    [m EXCEPT !.out.completed = Append(@, id)]

\* A registerQuest that leaves an occupied Game slot to its holder.
registerQuestFirstWins(m, questDef, scope, ctx, roll) ==
    LET id == m.nextId
        fresh == QuestInstance(id, questDef, scope, ctx)
        questInstance ==
            IF ~questDef.disableRandomPerk
            THEN [fresh EXCEPT !.perkInstance =
                                  pickPerkForQuest(questDef, scope, roll)]
            ELSE fresh
        m1 == [m EXCEPT !.nextId = id + 1,
                        !.inst = Append(@, questInstance),
                        !.life = Append(@, NoLife)]
        m2 == IF scope = ScopeGame
              THEN [m1 EXCEPT !.activeGlobalQuest =
                                 IF @ = Undefined THEN id ELSE @]
              ELSE [m1 EXCEPT !.activeQuests = Append(@, id)]
        m3 == IF questDef.onStart = "throws"
              THEN reportError(m2, ctx.eventPlayer, id, "onStart")
              ELSE m2
    IN notifyQuestStart(m3, id)

\* registerQuest; the new instance has id m.nextId.
registerQuest(m, questDef, scope, ctx, roll) ==
    LET id == m.nextId
        fresh == QuestInstance(id, questDef, scope, ctx)
        questInstance ==
            IF ~questDef.disableRandomPerk
            THEN [fresh EXCEPT !.perkInstance =
                                  pickPerkForQuest(questDef, scope, roll)]
            ELSE fresh
        m1 == [m EXCEPT !.nextId = id + 1,
                        !.inst = Append(@, questInstance),
                        !.life = Append(@, NoLife)]
        m2 == IF scope = ScopeGame
              THEN [m1 EXCEPT !.activeGlobalQuest = id]
              ELSE [m1 EXCEPT !.activeQuests = Append(@, id)]
        m3 == IF questDef.onStart = "throws"
              THEN reportError(m2, ctx.eventPlayer, id, "onStart")
              ELSE m2
    IN notifyQuestStart(m3, id)

RECURSIVE initRegister(_, _, _, _)
\* The loop of init over initialQuests from index i.
initRegister(m, initialQuests, rolls, i) ==
    IF i > Len(initialQuests)
    THEN m
    ELSE initRegister(registerQuest(m, initialQuests[i].quest,
                                    initialQuests[i].scope,
                                    initialQuests[i].ctx, rolls[i]),
                      initialQuests, rolls, i + 1)

\* An init that restarts the instance counter as well.
initRestartingIds(m, initialQuests, rolls) ==
    initRegister([m EXCEPT !.activeQuests = << >>,
                           !.pastQuests = << >>,
                           !.activeGlobalQuest = Undefined,
                           !.nextId = 1],
                 initialQuests, rolls, 1)

\* An init that leaves the active list as it is.
initKeepingActive(m, initialQuests, rolls) ==
    initRegister([m EXCEPT !.pastQuests = << >>,
                           !.activeGlobalQuest = Undefined],
                 initialQuests, rolls, 1)

\* QuestManager.init
init(m, initialQuests, rolls) ==
    initRegister([m EXCEPT !.activeQuests = << >>,
                           !.pastQuests = << >>,
                           !.activeGlobalQuest = Undefined],
                 initialQuests, rolls, 1)

\* An unregisterQuest that empties the active list.
unregisterQuestClearing(m, id) ==
    IF m.inst[id].scope = ScopeGame
    THEN IF m.activeGlobalQuest = id
         THEN [m EXCEPT !.activeGlobalQuest = Undefined]
         ELSE m
    ELSE [m EXCEPT !.activeQuests = << >>]

\* An unregisterQuest that clears the Game slot for any Game instance,
\* whoever holds the slot.
unregisterQuestAnyGame(m, id) ==
    IF m.inst[id].scope = ScopeGame
    THEN [m EXCEPT !.activeGlobalQuest = Undefined]
    ELSE [m EXCEPT !.activeQuests = SelectSeq(@, LAMBDA i : i # id)]

\* An unregisterQuest that removes nothing.
unregisterQuestKeeping(m, id) == m

\* An unregisterQuest that also archives the instance it is given.
unregisterQuestArchiving(m, id) ==
    IF m.inst[id].scope = ScopeGame
    THEN IF m.activeGlobalQuest = id
         THEN [m EXCEPT !.activeGlobalQuest = Undefined,
                        !.pastQuests = Append(@, id)]
         ELSE m
    ELSE [m EXCEPT !.activeQuests = SelectSeq(@, LAMBDA i : i # id),
                   !.pastQuests = Append(@, id)]

\* unregisterQuest
unregisterQuest(m, id) ==
    IF m.inst[id].scope = ScopeGame
    THEN IF m.activeGlobalQuest = id
         THEN [m EXCEPT !.activeGlobalQuest = Undefined]
         ELSE m
    ELSE [m EXCEPT !.activeQuests = SelectSeq(@, LAMBDA i : i # id)]

\* resetPlayer
resetPlayer(m, player) ==
    [m EXCEPT !.activeQuests =
        SelectSeq(@, LAMBDA i :
            /\ m.inst[i].player # Undefined
            /\ GetObjId(m.inst[i].player) # GetObjId(player))]

\* getPlayerQuests
getPlayerQuests(m, player) ==
    SelectSeq(m.activeQuests, LAMBDA i :
        /\ m.inst[i].player # Undefined
        /\ GetObjId(m.inst[i].player) = GetObjId(player))

\* getSquadQuests
getSquadQuests(m, squad) ==
    SelectSeq(m.activeQuests, LAMBDA i : m.inst[i].squad = squad)

\* getTeamQuests
getTeamQuests(m, team) ==
    SelectSeq(m.activeQuests, LAMBDA i : m.inst[i].team = team)

\* perkInstance.apply(ctx) of instance id: the manager state after the call
\* and whether the call threw.  given tells whether ctx.targets is set.
\* The speed boost resolves its recipients (ctx.targets, else the scope,
\* else the acting player) and boosts each of them.
applyPerk(m, id, ctx, given, targets, players) ==
    LET q == m.inst[id]
        def == PerkDefinition(q.perkInstance)
        m1 == [m EXCEPT !.life[id].perkApplies = @ + 1,
                        !.life[id].perkWhileActive =
                            @ /\ (given => IsActive(m, id))]
        initialTargets == IF given THEN targets
                          ELSE playersMatchingQuest(q, players)
        recipients == IF Len(initialTargets) > 0
                      THEN initialTargets
                      ELSE IF ctx.eventPlayer # Undefined
                           THEN <<ctx.eventPlayer>>
                           ELSE << >>
    IN IF def.apply = "throws"
       THEN [m |-> m1, threw |-> TRUE]
       ELSE [m |-> [m1 EXCEPT !.out.perks =
                       Append(@, [id |-> id, perk |-> def.name,
                                  given |-> given, targets |-> targets,
                                  boosted |-> recipients])],
             threw |-> FALSE]

\* A perk step that hands apply the resolved players and never falls back
\* to the acting player.
completionPerkNoFallback(m, id, ctx, players) ==
    LET q == m.inst[id]
        r == applyPerk(m, id, ctx, TRUE, playersMatchingQuest(q, players), players)
    IN IF q.perkInstance = NoPerk
       THEN m
       ELSE IF r.threw
            THEN reportError(r.m, ctx.eventPlayer, id, "perkApply")
            ELSE r.m

\* The perk step of handleQuestCompletion: apply to the resolved recipients,
\* a throw is caught and reported.
completionPerk(m, id, ctx, players) ==
    LET q == m.inst[id]
        targets == playersMatchingQuest(q, players)
        recipients == IF Len(targets) > 0
                      THEN targets
                      ELSE IF ctx.eventPlayer # Undefined
                           THEN <<ctx.eventPlayer>>
                           ELSE << >>
        r == applyPerk(m, id, ctx, TRUE, recipients, players)
    IN IF q.perkInstance = NoPerk
       THEN m
       ELSE IF r.threw
            THEN reportError(r.m, ctx.eventPlayer, id, "perkApply")
            ELSE r.m

\* The onComplete step of handleQuestCompletion: the callback runs when the
\* template has one, a throw is caught and reported.
completionCallback(m, id, ctx, players) ==
    LET q == m.inst[id]
        kind == QuestDefinition(q.quest).onComplete
        m1 == [m EXCEPT !.life[id].onCompletes = @ + 1,
                        !.life[id].onCompleteWhileActive = @ \/ IsActive(m, id),
                        !.life[id].onCompleteInHistory = @ /\ IsPast(m, id),
                        !.out.onCompletes = Append(@, id)]
        r == IF kind = "applyPerk" /\ q.perkInstance # NoPerk
             THEN applyPerk(m1, id, ctx, FALSE, << >>, players)
             ELSE [m |-> m1, threw |-> kind = "throws"]
    IN IF kind = "none"
       THEN m
       ELSE IF r.threw
            THEN reportError(r.m, ctx.eventPlayer, id, "onComplete")
            ELSE r.m

\* A handleQuestCompletion without the try around the perk's apply: the
\* throw leaves the method and is reported by processQuestUpdate.
handleQuestCompletionUncaught(m, id, ctx, players) ==
    LET m1 == [m EXCEPT !.life[id].completions = @ + 1]
        q == m.inst[id]
        targets == playersMatchingQuest(q, players)
        recipients == IF Len(targets) > 0
                      THEN targets
                      ELSE IF ctx.eventPlayer # Undefined
                           THEN <<ctx.eventPlayer>>
                           ELSE << >>
        r == applyPerk(m1, id, ctx, TRUE, recipients, players)
        m2 == IF q.perkInstance = NoPerk THEN m1 ELSE r.m
        m3 == unregisterQuest(m2, id)
        m4 == [m3 EXCEPT !.pastQuests = Append(@, id)]
        m5 == notifyQuestCompletion(m4, id)
    IN IF q.perkInstance # NoPerk /\ r.threw
       THEN reportError(r.m, ctx.eventPlayer, id, "update")
       ELSE completionCallback(m5, id, ctx, players)

\* A handleQuestCompletion that invokes onComplete before it takes the
\* instance out of the active set and into history.
handleQuestCompletionCallbackFirst(m, id, ctx, players) ==
    LET m1 == [m EXCEPT !.life[id].completions = @ + 1]
        m2 == completionPerk(m1, id, ctx, players)
        m3 == completionCallback(m2, id, ctx, players)
        m4 == unregisterQuest(m3, id)
        m5 == [m4 EXCEPT !.pastQuests = Append(@, id)]
    IN notifyQuestCompletion(m5, id)

\* handleQuestCompletion
handleQuestCompletion(m, id, ctx, players) ==
    LET m1 == [m EXCEPT !.life[id].completions = @ + 1]
        m2 == completionPerk(m1, id, ctx, players)
        m3 == unregisterQuest(m2, id)
        m4 == [m3 EXCEPT !.pastQuests = Append(@, id)]
        m5 == notifyQuestCompletion(m4, id)
    IN completionCallback(m5, id, ctx, players)

\* A processQuestUpdate body with one completion check per signal: it handles
\* the completion once for the nextState hint and once more for the state.
applyUpdateResultPerSignal(m, id, ctx, previous, result, players) ==
    LET m1 == [m EXCEPT
                !.inst[id].currentProgress.current = result.current,
                !.inst[id].currentProgress.target = result.target,
                !.inst[id].currentProgress.state = result.state]
        progress == m1.inst[id].currentProgress
        m2 == IF \/ progress.current # previous.current
                 \/ progress.target # previous.target
                 \/ progress.state # previous.state
              THEN notifyQuestProgress(m1, id, previous.percent,
                        percent(progress.current, progress.target))
              ELSE m1
        m3 == IF result.nextState = Completed
              THEN handleQuestCompletion(
                       [m2 EXCEPT !.inst[id].currentProgress.state = Completed],
                       id, ctx, players)
              ELSE m2
    IN IF progress.state = Completed
       THEN handleQuestCompletion(m3, id, ctx, players)
       ELSE m3

\* The body of processQuestUpdate's try block once update has returned.
applyUpdateResult(m, id, ctx, previous, result, players) ==
    LET m1 == [m EXCEPT
                !.inst[id].currentProgress.current = result.current,
                !.inst[id].currentProgress.target = result.target,
                !.inst[id].currentProgress.state = result.state]
        progress == m1.inst[id].currentProgress
        m2 == IF \/ progress.current # previous.current
                 \/ progress.target # previous.target
                 \/ progress.state # previous.state
              THEN notifyQuestProgress(m1, id, previous.percent,
                        percent(progress.current, progress.target))
              ELSE m1
    IN IF result.nextState = Completed \/ progress.state = Completed
       THEN handleQuestCompletion(
                [m2 EXCEPT !.inst[id].currentProgress.state = Completed],
                id, ctx, players)
       ELSE m2

\* A processQuestUpdate whose catch block drops the error unreported.
processQuestUpdateSilent(m, id, ctx, players) ==
    LET q == m.inst[id]
        promoted == IF q.currentProgress.state = NotStarted
                    THEN [q.currentProgress EXCEPT !.state = InProgress]
                    ELSE q.currentProgress
        questCtx == [ctx EXCEPT
            !.eventPlayer = IF @ # Undefined THEN @ ELSE q.player,
            !.eventSquad = IF @ # Undefined THEN @ ELSE q.squad,
            !.eventTeam = IF @ # Undefined THEN @ ELSE q.team]
        previous == [current |-> promoted.current, target |-> promoted.target,
                     percent |-> percent(promoted.current, promoted.target),
                     state |-> promoted.state]
        u == UpdateFn(QuestDefinition(q.quest).update, promoted, questCtx)
        m1 == [m EXCEPT !.inst[id].currentProgress = u.progress,
                        !.life[id].pipeline = "ran"]
    IN IF u.threw
       THEN m1
       ELSE applyUpdateResult(m1, id, questCtx, previous, u.result, players)

\* processQuestUpdate
processQuestUpdate(m, id, ctx, players) ==
    LET q == m.inst[id]
        promoted == IF q.currentProgress.state = NotStarted
                    THEN [q.currentProgress EXCEPT !.state = InProgress]
                    ELSE q.currentProgress
        questCtx == [ctx EXCEPT
            !.eventPlayer = IF @ # Undefined THEN @ ELSE q.player,
            !.eventSquad = IF @ # Undefined THEN @ ELSE q.squad,
            !.eventTeam = IF @ # Undefined THEN @ ELSE q.team]
        previous == [current |-> promoted.current, target |-> promoted.target,
                     percent |-> percent(promoted.current, promoted.target),
                     state |-> promoted.state]
        u == UpdateFn(QuestDefinition(q.quest).update, promoted, questCtx)
        m1 == [m EXCEPT !.inst[id].currentProgress = u.progress,
                        !.life[id].pipeline = "ran"]
    IN IF u.threw
       THEN reportError(m1, ctx.eventPlayer, id, "update")
       ELSE applyUpdateResult(m1, id, questCtx, previous, u.result, players)

RECURSIVE processAllAborting(_, _, _, _, _, _)
\* A loop without isolation: the first instance whose processing raises an
\* error ends the loop, the instances after it are not processed.
processAllAborting(m, collected, i, source, ctx, players) ==
    IF i > Len(collected)
    THEN m
    ELSE LET id == collected[i]
             next == IF source \in QuestDefinition(m.inst[id].quest).updateSources
                     THEN processQuestUpdate(m, id, ctx, players)
                     ELSE [m EXCEPT !.life[id].pipeline =
                                      IF @ = "never" THEN "skipped" ELSE @]
         IN IF Len(next.out.errors) > Len(m.out.errors)
            THEN next
            ELSE processAllAborting(next, collected, i + 1, source, ctx, players)

RECURSIVE processAllUnfiltered(_, _, _, _, _, _)
\* A loop that does not look at updateSources: every collected instance is
\* run through the pipeline.
processAllUnfiltered(m, collected, i, source, ctx, players) ==
    IF i > Len(collected)
    THEN m
    ELSE processAllUnfiltered(processQuestUpdate(m, collected[i], ctx, players),
                              collected, i + 1, source, ctx, players)

RECURSIVE processAll(_, _, _, _, _, _)
\* The loop of updatePlayer over the collected instances from index i.
processAll(m, collected, i, source, ctx, players) ==
    IF i > Len(collected)
    THEN m
    ELSE LET id == collected[i]
             next == IF source \in QuestDefinition(m.inst[id].quest).updateSources
                     THEN processQuestUpdate(m, id, ctx, players)
                     ELSE [m EXCEPT !.life[id].pipeline =
                                      IF @ = "never" THEN "skipped" ELSE @]
         IN processAll(next, collected, i + 1, source, ctx, players)

\* The context updatePlayer routes with: eventPlayer defaults to the player,
\* eventTeam to the acting player's team.
enrichedContext(player, source, ctx) ==
    LET eventPlayer == IF ctx.eventPlayer # Undefined THEN ctx.eventPlayer
                       ELSE player
    IN [ctx EXCEPT
          !.eventPlayer = eventPlayer,
          !.updateSource = source,
          !.eventTeam = IF eventPlayer # Undefined /\ @ = Undefined
                        THEN GetTeam(eventPlayer)
                        ELSE @]

\* A collection step that takes the Team instances of every team.
relevantQuestsEveryTeam(m, enrichedCtx) ==
    (IF enrichedCtx.eventPlayer # Undefined
     THEN getPlayerQuests(m, enrichedCtx.eventPlayer) ELSE << >>)
    \o (IF enrichedCtx.eventSquad # Undefined
        THEN getSquadQuests(m, enrichedCtx.eventSquad) ELSE << >>)
    \o SelectSeq(m.activeQuests, LAMBDA i : m.inst[i].team # Undefined)
    \o (IF m.activeGlobalQuest # Undefined
        THEN <<m.activeGlobalQuest>> ELSE << >>)

\* The instances updatePlayer collects, in order.
relevantQuests(m, enrichedCtx) ==
    (IF enrichedCtx.eventPlayer # Undefined
     THEN getPlayerQuests(m, enrichedCtx.eventPlayer) ELSE << >>)
    \o (IF enrichedCtx.eventSquad # Undefined
        THEN getSquadQuests(m, enrichedCtx.eventSquad) ELSE << >>)
    \o (IF enrichedCtx.eventTeam # Undefined
        THEN getTeamQuests(m, enrichedCtx.eventTeam) ELSE << >>)
    \o (IF m.activeGlobalQuest # Undefined
        THEN <<m.activeGlobalQuest>> ELSE << >>)

\* updatePlayer
updatePlayer(m, player, source, ctx, players) ==
    LET enrichedCtx == enrichedContext(player, source, ctx)
    IN processAll(m, relevantQuests(m, enrichedCtx), 1, source, enrichedCtx,
                  players)

\* The queries; Undefined when nothing is found.
First(ids) == IF Len(ids) = 0 THEN Undefined ELSE ids[1]

getPlayerQuest(m, player) ==
    IF GetObjId(player) < 0
    THEN Undefined
    ELSE First(SelectSeq(m.activeQuests, LAMBDA i :
            /\ m.inst[i].scope = ScopePlayer
            /\ m.inst[i].player # Undefined
            /\ GetObjId(m.inst[i].player) = GetObjId(player)))

getSquadQuest(m, squad) ==
    First(SelectSeq(m.activeQuests, LAMBDA i :
        m.inst[i].scope = ScopeSquad /\ m.inst[i].squad = squad))

getTeamQuest(m, team) ==
    First(SelectSeq(m.activeQuests, LAMBDA i :
        m.inst[i].scope = ScopeTeam /\ m.inst[i].team = team))

getGlobalQuest(m) == m.activeGlobalQuest

hasPlayerQuest(m, player) == getPlayerQuest(m, player) # Undefined

----------------------------------------------------------------------------
\* The timed speed multiplier.  The speed state sp holds tokens
\* (g_playerSpeedTokens), next (g_nextSpeedToken), multiplier (what
\* mod.SetPlayerMovementSpeedMultiplier last set, in tenths), timers (the
\* continuations suspended in mod.Wait, in scheduling order) and applied
\* (for every token issued: the player, whether a wait was started, whether
\* it has ended, whether it then reverted the multiplier, and whether the
\* player left the game while it was pending).  Every timed application
\* waits the same duration, so the waits end in the order in which they
\* began.

\* The multiplier a player starts with and reverts to: 1.0.
NormalSpeed == 10
\* The multiplier and the duration the speed boost perk passes: 1.5, 20 s.
BoostSpeed == 15
BoostDuration == 20

Speed ==
    [tokens |-> g_playerSpeedTokens, next |-> g_nextSpeedToken,
     multiplier |-> speedMultiplier, timers |-> timers, applied |-> applied]

\* An application that schedules its revert whatever the duration.
applyTemporarySpeedMultiplierAlwaysTimed(sp, player, multiplier, durationSeconds) ==
    IF player = Undefined \/ GetObjId(player) < 0
    THEN sp
    ELSE LET playerId == GetObjId(player)
             token == sp.next
         IN [sp EXCEPT
               !.next = token + 1,
               !.tokens[playerId] = token,
               !.multiplier[playerId] = multiplier,
               !.timers = Append(@, [playerId |-> playerId, token |-> token]),
               !.applied = Append(@, [playerId |-> playerId,
                                      timed |-> durationSeconds > 0,
                                      fired |-> FALSE,
                                      reverted |-> FALSE,
                                      left |-> FALSE])]

\* An application that hands out the current token without advancing the
\* counter.
applyTemporarySpeedMultiplierSameToken(sp, player, multiplier, durationSeconds) ==
    IF player = Undefined \/ GetObjId(player) < 0
    THEN sp
    ELSE LET playerId == GetObjId(player)
             token == IF sp.next > 1 THEN sp.next - 1 ELSE sp.next
         IN [sp EXCEPT
               !.next = token + 1,
               !.tokens[playerId] = token,
               !.multiplier[playerId] = multiplier,
               !.timers = IF durationSeconds <= 0
                          THEN @
                          ELSE Append(@, [playerId |-> playerId, token |-> token]),
               !.applied = IF token > Len(@)
                           THEN Append(@, [playerId |-> playerId,
                                           timed |-> durationSeconds > 0,
                                           fired |-> FALSE,
                                           reverted |-> FALSE,
                                           left |-> FALSE])
                           ELSE @]

\* applyTemporarySpeedMultiplier up to its await.
applyTemporarySpeedMultiplier(sp, player, multiplier, durationSeconds) ==
    IF player = Undefined \/ GetObjId(player) < 0
    THEN sp
    ELSE LET playerId == GetObjId(player)
             token == sp.next
         IN [sp EXCEPT
               !.next = token + 1,
               !.tokens[playerId] = token,
               !.multiplier[playerId] = multiplier,
               !.timers = IF durationSeconds <= 0
                          THEN @
                          ELSE Append(@, [playerId |-> playerId, token |-> token]),
               !.applied = Append(@, [playerId |-> playerId,
                                      timed |-> durationSeconds > 0,
                                      fired |-> FALSE,
                                      reverted |-> FALSE,
                                      left |-> FALSE])]

\* A continuation that resets the multiplier but leaves the token on record.
revertSpeedMultiplierKeepingToken(sp) ==
    LET timer == Head(sp.timers)
        sp1 == [sp EXCEPT !.timers = Tail(@),
                          !.applied[timer.token].fired = TRUE]
    IN IF sp.tokens[timer.playerId] = timer.token
       THEN [sp1 EXCEPT !.multiplier[timer.playerId] = NormalSpeed,
                        !.applied[timer.token].reverted = TRUE]
       ELSE sp1

\* A continuation that reverts whatever token is on record.
revertSpeedMultiplierUnguarded(sp) ==
    LET timer == Head(sp.timers)
        sp1 == [sp EXCEPT !.timers = Tail(@),
                          !.applied[timer.token].fired = TRUE]
    IN [sp1 EXCEPT !.multiplier[timer.playerId] = NormalSpeed,
                   !.tokens[timer.playerId] = Undefined,
                   !.applied[timer.token].reverted = TRUE]

\* applyTemporarySpeedMultiplier after its await, for the wait that ends
\* first: the revert happens only under the token it was started with.
revertSpeedMultiplier(sp) ==
    LET timer == Head(sp.timers)
        sp1 == [sp EXCEPT !.timers = Tail(@),
                          !.applied[timer.token].fired = TRUE]
    IN IF sp.tokens[timer.playerId] = timer.token
       THEN [sp1 EXCEPT !.multiplier[timer.playerId] = NormalSpeed,
                        !.tokens[timer.playerId] = Undefined,
                        !.applied[timer.token].reverted = TRUE]
       ELSE sp1

RECURSIVE boostAll(_, _, _)
\* The loop of the speed boost's apply over its recipients from index i.
boostAll(sp, recipients, i) ==
    IF i > Len(recipients)
    THEN sp
    ELSE boostAll(applyTemporarySpeedMultiplier(sp, recipients[i], BoostSpeed,
                                                BoostDuration),
                  recipients, i + 1)

RECURSIVE applyPerks(_, _, _)
\* The speed state after the perk applications a manager call made, in order.
applyPerks(sp, perks, i) ==
    IF i > Len(perks)
    THEN sp
    ELSE applyPerks(IF perks[i].perk = SpeedBoostPerkDefinition.name
                    THEN boostAll(sp, perks[i].boosted, 1)
                    ELSE sp,
                    perks, i + 1)

\* The speed variables take the speed state sp.
SpeedBecomes(sp) ==
    /\ g_playerSpeedTokens' = sp.tokens
    /\ g_nextSpeedToken' = sp.next
    /\ speedMultiplier' = sp.multiplier
    /\ timers' = sp.timers
    /\ applied' = sp.applied

----------------------------------------------------------------------------
\* Tracked players.

\* ensurePlayerTracked
ensurePlayerTracked(players, player) ==
    IF GetObjId(player) < 0
    THEN players
    ELSE IF \E i \in 1 .. Len(players) : GetObjId(players[i]) = GetObjId(player)
         THEN players
         ELSE Append(players, player)

\* OnPlayerLeaveGame: the first tracked player with that id is spliced out.
removeTracked(players, eventNumber) ==
    LET hits == {i \in 1 .. Len(players) : GetObjId(players[i]) = eventNumber}
    IN IF hits = {}
       THEN players
       ELSE LET idx == CHOOSE i \in hits : \A j \in hits : i <= j
            IN SubSeq(players, 1, idx - 1) \o SubSeq(players, idx + 1, Len(players))

----------------------------------------------------------------------------
\* The state machine of the manager.

\* The manager state held in the variables, with nothing emitted yet.
Manager ==
    [inst |-> inst, activeQuests |-> activeQuests, pastQuests |-> pastQuests,
     activeGlobalQuest |-> activeGlobalQuest, nextId |-> nextId,
     life |-> life, out |-> NoOutput]

\* The variables take the manager state m.
Becomes(m) ==
    /\ inst' = m.inst
    /\ activeQuests' = m.activeQuests
    /\ pastQuests' = m.pastQuests
    /\ activeGlobalQuest' = m.activeGlobalQuest
    /\ nextId' = m.nextId
    /\ life' = m.life

NoContext == QuestContext(Undefined, Undefined, Undefined, NoWeapon)

\* The arguments init is called with: none, and the first template of the
\* registry at Game scope with an empty context.
InitialQuests ==
    {<< >>, <<[quest |-> firstBlood_Quest, scope |-> ScopeGame, ctx |-> NoContext]>>}

\* The draws of the registrations init makes, one per initial quest.
InitRolls(initialQuests) ==
    IF Len(initialQuests) = 0
    THEN {<< >>}
    ELSE {<<roll>> : roll \in Rolls(EligiblePerks(initialQuests[1].quest,
                                                  initialQuests[1].scope))}

\* The players quests are registered for, and the players that join.
RegisterPlayers == {1, 2}
JoiningPlayers == {1}

\* The contexts registerQuest is called with, by scope.
RegisterContexts(scope) ==
    CASE scope = ScopePlayer ->
            {QuestContext(p, Undefined, Undefined, NoWeapon) : p \in RegisterPlayers}
      [] scope = ScopeSquad ->
            {QuestContext(Undefined, s, Undefined, NoWeapon) : s \in Squads}
      [] scope = ScopeTeam ->
            {QuestContext(Undefined, Undefined, t, NoWeapon) : t \in {1}}
      [] OTHER -> {NoContext}

\* The scopes each template is registered at.
RegisterScopes(questDef) ==
    CASE questDef.name = "firstBlood" -> {ScopeGame, ScopeTeam}
      [] questDef.name = "pistolKills" -> AllQuestScopes
      [] OTHER -> {ScopeTeam}

\* The events delivered to updatePlayer: the player the hook names and the
\* context it passes.  The kill and damage hooks pass the acting player and
\* the weapon; other callers may add the squad or the team.
Events ==
    {[player |-> p, source |-> OnPlayerEarnedKill,
      ctx |-> QuestContext(p, s, Undefined, w)] :
        p \in PlayerRefs, s \in {Undefined} \cup Squads,
        w \in {Sidearm_P18, Rifle_M4}}
    \cup {[player |-> p, source |-> OnPlayerEarnedKill,
           ctx |-> QuestContext(Undefined, Undefined, t, w)] :
            p \in {1, 2}, t \in Teams, w \in {Sidearm_P18, NoWeapon}}
    \cup {[player |-> p, source |-> OnPlayerReceivesDamage,
           ctx |-> QuestContext(p, s, Undefined, Sidearm_P18)] :
            p \in {1, 2}, s \in {Undefined} \cup Squads}

Init ==
    /\ inst = << >>
    /\ activeQuests = << >>
    /\ pastQuests = << >>
    /\ activeGlobalQuest = Undefined
    /\ nextId = 1
    /\ life = << >>
    /\ g_activePlayers = << >>
    /\ g_playerSpeedTokens = [id \in PlayerIds |-> Undefined]
    /\ g_nextSpeedToken = 1
    /\ speedMultiplier = [id \in PlayerIds |-> NormalSpeed]
    /\ timers = << >>
    /\ applied = << >>
    /\ calls = << >>
    /\ gameMode = "idle"

\* q_manager.registerQuest(questDef, scope, ctx)
RegisterQuest ==
    \E questDef \in QuestDefinitions :
      \E scope \in RegisterScopes(questDef) :
        \E ctx \in RegisterContexts(scope) :
          \E roll \in Rolls(EligiblePerks(questDef, scope)) :
            /\ nextId <= MaxInstances
            /\ Becomes(registerQuest(Manager, questDef, scope, ctx, roll))
            /\ UNCHANGED <<g_activePlayers, svars, calls, gameMode>>

\* q_manager.init(initialQuests)
ManagerInit ==
    \E initialQuests \in InitialQuests :
      \E rolls \in InitRolls(initialQuests) :
        /\ nextId + Len(initialQuests) - 1 <= MaxInstances
        /\ Becomes(init(Manager, initialQuests, rolls))
        /\ UNCHANGED <<g_activePlayers, svars, calls, gameMode>>

\* q_manager.unregisterQuest(questInstance), for any instance ever returned
UnregisterQuest ==
    \E id \in 1 .. Len(inst) :
        /\ Becomes(unregisterQuest(Manager, id))
        /\ UNCHANGED <<g_activePlayers, svars, calls, gameMode>>

\* q_manager.resetPlayer(player)
ResetPlayer ==
    \E player \in PlayerRefs :
        /\ Becomes(resetPlayer(Manager, player))
        /\ UNCHANGED <<g_activePlayers, svars, calls, gameMode>>

\* q_manager.updatePlayer(player, source, ctx)
UpdatePlayer ==
    \E e \in Events :
        LET m == updatePlayer(Manager, e.player, e.source, e.ctx, g_activePlayers)
        IN /\ Becomes(m)
           /\ SpeedBecomes(applyPerks(Speed, m.out.perks, 1))
           /\ UNCHANGED <<g_activePlayers, calls, gameMode>>

\* A wait of applyTemporarySpeedMultiplier ends and the function resumes.
WaitEnds ==
    /\ timers # << >>
    /\ SpeedBecomes(revertSpeedMultiplier(Speed))
    /\ UNCHANGED <<qvars, calls, gameMode>>

\* applyTemporarySpeedMultiplier(player, BoostSpeed, durationSeconds), called
\* on its own with a timed or an untimed duration.
ApplySpeed ==
    \E player \in PlayerRefs, durationSeconds \in {0, BoostDuration} :
        /\ g_nextSpeedToken <= MaxTokens
        /\ SpeedBecomes(applyTemporarySpeedMultiplier(Speed, player, BoostSpeed,
                                                      durationSeconds))
        /\ UNCHANGED <<qvars, calls, gameMode>>

\* OnPlayerJoinGame(eventPlayer)
OnPlayerJoinGame ==
    \E player \in JoiningPlayers :
        /\ g_activePlayers' = ensurePlayerTracked(g_activePlayers, player)
        /\ UNCHANGED <<inst, activeQuests, pastQuests, activeGlobalQuest, nextId,
                       life, svars, calls, gameMode>>

\* The record of the applications, with those whose wait was pending when
\* their tracked player was removed marked as left.
markLeft(history, players, eventNumber) ==
    IF removeTracked(players, eventNumber) = players
    THEN history
    ELSE [t \in DOMAIN history |->
            IF /\ history[t].playerId = eventNumber
               /\ history[t].timed
               /\ ~history[t].fired
            THEN [history[t] EXCEPT !.left = TRUE]
            ELSE history[t]]

\* OnPlayerLeaveGame(eventNumber); the speed tokens and the pending waits
\* are not touched.
OnPlayerLeaveGame ==
    \E eventNumber \in PlayerIds :
        /\ g_activePlayers' = removeTracked(g_activePlayers, eventNumber)
        /\ applied' = markLeft(applied, g_activePlayers, eventNumber)
        /\ UNCHANGED <<inst, activeQuests, pastQuests, activeGlobalQuest, nextId,
                       life, g_playerSpeedTokens, g_nextSpeedToken,
                       speedMultiplier, timers, calls, gameMode>>

----------------------------------------------------------------------------
\* The asynchronous variant of the script: the same manager fields, methods
\* that suspend at each await, and hooks that start updatePlayer without
\* awaiting it.  `calls` is the queue of suspended method calls, in the order
\* in which they resume.

\* In-flight method calls and instances constructed in one run of the
\* asynchronous variant.
MaxCalls == 2
MaxAsyncInstances == 3

\* The templates of QuestRegistry and the self-damage template, whose
\* onComplete registers the template again.
AsyncFirstBlood_Quest ==
    [name |-> "firstBlood", availableScope |-> {ScopeGame},
     updateSources |-> {OnPlayerEarnedKill}, defaultTarget |-> Undefined,
     update |-> "upd_FirstKill", onStart |-> "none", onComplete |-> "none"]

AsyncPistol_Quest ==
    [name |-> "pistol", availableScope |-> AllQuestScopes,
     updateSources |-> {OnPlayerEarnedKill}, defaultTarget |-> Undefined,
     update |-> "upd_PistolKills", onStart |-> "none", onComplete |-> "none"]

SelfDamageQuestDefinition ==
    [name |-> "selfDamage", availableScope |-> {ScopeGame},
     updateSources |-> {OnPlayerReceivesDamage}, defaultTarget |-> 1,
     update |-> "upd_SelfDamage", onStart |-> "log", onComplete |-> "restart"]

QuestRegistry == {AsyncFirstBlood_Quest, AsyncPistol_Quest, SelfDamageQuestDefinition}

AsyncQuestDefinition(name) == CHOOSE d \in QuestRegistry : d.name = name

\* A QuestContext of the asynchronous variant.
AsyncContext(eventPlayer, eventSquad, eventTeam, eventOtherPlayer) ==
    [eventPlayer |-> eventPlayer, eventSquad |-> eventSquad,
     eventTeam |-> eventTeam, eventOtherPlayer |-> eventOtherPlayer]

\* The empty context {}.
AsyncNoContext == AsyncContext(Undefined, Undefined, Undefined, Undefined)

\* new QuestInstance(def, scope, ctx) with the given id.
AsyncQuestInstance(id, questDef, scope, ctx) ==
    [id |-> id, quest |-> questDef.name, scope |-> scope,
     player |-> IF scope = ScopePlayer THEN ctx.eventPlayer ELSE Undefined,
     squad |-> IF scope = ScopeSquad THEN ctx.eventSquad ELSE Undefined,
     team |-> IF scope = ScopeTeam THEN ctx.eventTeam ELSE Undefined,
     currentProgress |->
        QuestProgress(IF questDef.defaultTarget = Undefined
                      THEN 1
                      ELSE questDef.defaultTarget)]

\* What has happened to one instance of the asynchronous manager: start,
\* progress and completion notifications, onComplete invocations, and
\* whether the active set held the instance when onComplete was invoked.
AsyncNoLife ==
    [started |-> 0, progressed |-> 0, completions |-> 0, onCompletes |-> 0,
     activeAtOnComplete |-> FALSE, pastAtOnComplete |-> TRUE,
     selfDamages |-> 0]

\* An upd_SelfDamage that counts the damage and never reports completion.
upd_SelfDamageUncompleted(ctx, progress) ==
    IF ctx.eventPlayer = Undefined \/ ctx.eventPlayer # ctx.eventOtherPlayer
    THEN [current |-> progress.current, target |-> progress.target,
          state |-> progress.state, nextState |-> progress.state]
    ELSE [current |-> progress.current + 1, target |-> progress.target,
          state |-> InProgress, nextState |-> InProgress]

\* upd_SelfDamage
upd_SelfDamage(ctx, progress) ==
    LET target == IF progress.target > 0 THEN progress.target ELSE 1
        isSelfDamage == /\ ctx.eventPlayer # Undefined
                        /\ ctx.eventPlayer = ctx.eventOtherPlayer
        nextCurrent == IF progress.current + 1 <= target
                       THEN progress.current + 1
                       ELSE target
        nextState == IF nextCurrent >= target THEN Completed ELSE InProgress
    IN IF ctx.eventPlayer = Undefined \/ ~isSelfDamage
       THEN [current |-> progress.current, target |-> target,
             state |-> progress.state, nextState |-> progress.state]
       ELSE [current |-> nextCurrent, target |-> target,
             state |-> nextState, nextState |-> nextState]

\* quest.update(questCtx) of the asynchronous templates: the stubs resolve
\* to defaultUpdateResult.
AsyncUpdateFn(update, ctx, progress) ==
    IF update = "upd_SelfDamage"
    THEN upd_SelfDamage(ctx, progress)
    ELSE defaultUpdateResult

\* The state of the asynchronous manager and its suspended calls.
AsyncManager ==
    [inst |-> inst, activeQuests |-> activeQuests, pastQuests |-> pastQuests,
     activeGlobalQuest |-> activeGlobalQuest, nextId |-> nextId, life |-> life,
     calls |-> calls]

\* A suspended call: the method, the await it is suspended at, and its
\* locals (the enriched context, the source, the snapshot relevantQuests and
\* the index in it, the instance in processing with the values read before
\* the update and the update's result, the instance in registration).
AsyncCall(op, ctx, source, quests) ==
    [op |-> op, pc |-> "start", ctx |-> ctx, source |-> source,
     quests |-> quests, i |-> 1, id |-> Undefined,
     previous |-> [current |-> 0, target |-> 0, percent |-> 0, state |-> NotStarted],
     result |-> defaultUpdateResult, registered |-> Undefined]

\* The asynchronous getPlayerQuests, getSquadQuests and getTeamQuests.
asyncGetPlayerQuests(st, player) ==
    SelectSeq(st.activeQuests, LAMBDA id : st.inst[id].player = player)

asyncGetSquadQuests(st, squad) ==
    SelectSeq(st.activeQuests, LAMBDA id : st.inst[id].squad = squad)

asyncGetTeamQuests(st, team) ==
    SelectSeq(st.activeQuests, LAMBDA id : st.inst[id].team = team)

\* The asynchronous unregisterQuest.
asyncUnregisterQuest(st, id) ==
    IF st.inst[id].scope = ScopeGame
    THEN IF st.activeGlobalQuest = id
         THEN [st EXCEPT !.activeGlobalQuest = Undefined]
         ELSE st
    ELSE [st EXCEPT !.activeQuests = SelectSeq(@, LAMBDA other : other # id)]

\* The asynchronous resetPlayer.
asyncResetPlayer(st, player) ==
    [st EXCEPT !.activeQuests =
        SelectSeq(@, LAMBDA id : st.inst[id].player # player)]

\* notifyQuestStart
asyncNotifyQuestStart(st, id) == [st EXCEPT !.life[id].started = @ + 1]

\* The asynchronous registerQuest, called from `call`: the instance is
\* constructed and stored; with an onStart the method suspends at its await,
\* without one it goes on to the start notification and returns, and the
\* awaiting caller resumes later.
asyncRegisterQuest(st, call, questDef, scope, ctx) ==
    LET id == st.nextId
        st1 == [st EXCEPT
                  !.nextId = id + 1,
                  !.inst = Append(@, AsyncQuestInstance(id, questDef, scope, ctx)),
                  !.life = Append(@, AsyncNoLife),
                  !.activeGlobalQuest = IF scope = ScopeGame THEN id ELSE @,
                  !.activeQuests = IF scope = ScopeGame THEN @ ELSE Append(@, id)]
    IN IF questDef.onStart # "none"
       THEN [st1 EXCEPT !.calls = Append(@, [call EXCEPT !.pc = "onStart",
                                                         !.registered = id])]
       ELSE IF call.op = "registerQuest"
            THEN asyncNotifyQuestStart(st1, id)
            ELSE [asyncNotifyQuestStart(st1, id) EXCEPT
                    !.calls = Append(@, [call EXCEPT !.pc = "loop"])]

\* The asynchronous handleQuestCompletion up to its await of onComplete.
asyncHandleQuestCompletion(st, call) ==
    LET id == call.id
        st1 == asyncUnregisterQuest(st, id)
        st2 == [st1 EXCEPT !.pastQuests = Append(@, id),
                           !.life[id].completions = @ + 1]
        questDef == AsyncQuestDefinition(st.inst[id].quest)
    IN IF questDef.onComplete = "restart"
       THEN asyncRegisterQuest(
                [st2 EXCEPT !.life[id].onCompletes = @ + 1,
                            !.life[id].activeAtOnComplete =
                                \/ @
                                \/ st2.activeGlobalQuest = id
                                \/ \E k \in 1 .. Len(st2.activeQuests) :
                                      st2.activeQuests[k] = id,
                            !.life[id].pastAtOnComplete =
                                /\ @
                                /\ \E k \in 1 .. Len(st2.pastQuests) :
                                      st2.pastQuests[k] = id],
                call, SelfDamageQuestDefinition, ScopeGame, AsyncNoContext)
       ELSE [st2 EXCEPT !.calls = Append(@, [call EXCEPT !.pc = "loop"])]

\* The asynchronous processQuestUpdate up to its await of quest.update: the
\* promotion, the values read before the update, and the update itself.
\* life counts the self-damage events run on the instance.
asyncProcessQuestUpdate(st, call, id) ==
    LET old == st.inst[id].currentProgress
        progress == IF old.state = NotStarted
                    THEN [old EXCEPT !.state = InProgress]
                    ELSE old
        questCtx == [call.ctx EXCEPT
                       !.eventPlayer = IF @ = Undefined THEN st.inst[id].player ELSE @,
                       !.eventSquad = IF @ = Undefined THEN st.inst[id].squad ELSE @,
                       !.eventTeam = IF @ = Undefined THEN st.inst[id].team ELSE @]
        questDef == AsyncQuestDefinition(st.inst[id].quest)
    IN [st EXCEPT
          !.inst[id].currentProgress = progress,
          !.life[id].selfDamages =
              IF /\ questDef.update = "upd_SelfDamage"
                 /\ questCtx.eventPlayer # Undefined
                 /\ questCtx.eventPlayer = questCtx.eventOtherPlayer
              THEN @ + 1
              ELSE @,
          !.calls = Append(@, [call EXCEPT
                                 !.pc = "update",
                                 !.id = id,
                                 !.previous = [current |-> progress.current,
                                               target |-> progress.target,
                                               percent |-> percent(progress.current,
                                                                   progress.target),
                                               state |-> progress.state],
                                 !.result = AsyncUpdateFn(questDef.update, questCtx,
                                                          progress)])]

\* The asynchronous processQuestUpdate after its await of quest.update: the
\* result is written, progress is notified, completion is handled.
asyncAfterUpdate(st, call) ==
    LET id == call.id
        result == call.result
        written == [current |-> result.current, target |-> result.target,
                    state |-> result.state]
        changed == \/ written.current # call.previous.current
                   \/ written.target # call.previous.target
                   \/ written.state # call.previous.state
        notified == /\ changed
                    /\ percent(written.current, written.target) # call.previous.percent
        completing == result.nextState = Completed \/ written.state = Completed
        st1 == [st EXCEPT
                  !.inst[id].currentProgress =
                      IF completing THEN [written EXCEPT !.state = Completed]
                      ELSE written,
                  !.life[id].progressed = IF notified THEN @ + 1 ELSE @]
    IN IF completing
       THEN asyncHandleQuestCompletion(st1, call)
       ELSE [st1 EXCEPT !.calls = Append(@, [call EXCEPT !.pc = "loop"])]

RECURSIVE asyncLoopExtending(_, _)
\* A loop that takes into its list the instance that has come to hold the
\* Game slot since the list was built.
asyncLoopExtending(st, call) ==
    LET quests ==
            IF /\ st.activeGlobalQuest # Undefined
               /\ \A k \in 1 .. Len(call.quests) :
                     call.quests[k] # st.activeGlobalQuest
            THEN Append(call.quests, st.activeGlobalQuest)
            ELSE call.quests
        extended == [call EXCEPT !.quests = quests]
    IN IF extended.i > Len(quests)
       THEN st
       ELSE LET id == quests[extended.i]
            IN IF extended.source
                     \notin AsyncQuestDefinition(st.inst[id].quest).updateSources
               THEN asyncLoopExtending(st, [extended EXCEPT !.i = @ + 1])
               ELSE asyncProcessQuestUpdate(st, extended, id)

RECURSIVE asyncLoop(_, _)
\* The loop of the asynchronous updatePlayer over its snapshot from index
\* call.i, up to the next await: instances whose template does not declare
\* the source are skipped; the call ends with the list.
asyncLoop(st, call) ==
    IF call.i > Len(call.quests)
    THEN st
    ELSE LET id == call.quests[call.i]
         IN IF call.source \notin AsyncQuestDefinition(st.inst[id].quest).updateSources
            THEN asyncLoop(st, [call EXCEPT !.i = @ + 1])
            ELSE asyncProcessQuestUpdate(st, call, id)

\* The snapshot relevantQuests of the asynchronous updatePlayer.
asyncRelevantQuests(st, ctx) ==
    (IF ctx.eventPlayer # Undefined
     THEN asyncGetPlayerQuests(st, ctx.eventPlayer) ELSE << >>)
    \o (IF ctx.eventSquad # Undefined
        THEN asyncGetSquadQuests(st, ctx.eventSquad) ELSE << >>)
    \o (IF ctx.eventTeam # Undefined
        THEN asyncGetTeamQuests(st, ctx.eventTeam) ELSE << >>)
    \o (IF st.activeGlobalQuest # Undefined
        THEN <<st.activeGlobalQuest>> ELSE << >>)

\* The asynchronous updatePlayer up to its first await.
asyncUpdatePlayer(st, player, source, ctx) ==
    LET eventPlayer == IF ctx.eventPlayer = Undefined THEN player ELSE ctx.eventPlayer
        enrichedCtx == [ctx EXCEPT
                          !.eventPlayer = eventPlayer,
                          !.eventTeam = IF eventPlayer # Undefined /\ @ = Undefined
                                        THEN GetTeam(eventPlayer)
                                        ELSE @]
    IN asyncLoop(st, AsyncCall("updatePlayer", enrichedCtx, source,
                               asyncRelevantQuests(st, enrichedCtx)))

\* The call suspended longest resumes and runs to its next await or its end.
asyncResume(st) ==
    LET call == Head(st.calls)
        st1 == [st EXCEPT !.calls = Tail(@)]
    IN CASE call.pc = "update" -> asyncAfterUpdate(st1, call)
         [] call.pc = "onStart" ->
                IF call.op = "registerQuest"
                THEN asyncNotifyQuestStart(st1, call.registered)
                ELSE [asyncNotifyQuestStart(st1, call.registered) EXCEPT
                        !.calls = Append(@, [call EXCEPT !.pc = "loop"])]
         [] OTHER -> asyncLoop(st1, [call EXCEPT !.i = @ + 1])

\* The manager fields and the suspended calls take the state st.
AsyncBecomes(st) ==
    /\ inst' = st.inst
    /\ activeQuests' = st.activeQuests
    /\ pastQuests' = st.pastQuests
    /\ activeGlobalQuest' = st.activeGlobalQuest
    /\ nextId' = st.nextId
    /\ life' = st.life
    /\ calls' = st.calls

\* The registrations made in the asynchronous variant: the self-damage
\* quest at Game scope (init and its own onComplete), and the registry's
\* templates at their scopes.
AsyncRegistrations ==
    {[questDef |-> SelfDamageQuestDefinition, scope |-> ScopeGame,
      ctx |-> AsyncNoContext],
     [questDef |-> AsyncFirstBlood_Quest, scope |-> ScopeGame,
      ctx |-> AsyncNoContext],
     [questDef |-> AsyncPistol_Quest, scope |-> ScopeTeam,
      ctx |-> AsyncContext(Undefined, Undefined, 1, Undefined)]}
    \cup {[questDef |-> AsyncPistol_Quest, scope |-> ScopePlayer,
           ctx |-> AsyncContext(p, Undefined, Undefined, Undefined)] :
            p \in RegisterPlayers}

\* The events of the asynchronous variant: OnPlayerDamaged(eventPlayer,
\* eventOtherPlayer) and updatePlayer called for a kill.
AsyncEvents ==
    {[player |-> p, source |-> OnPlayerReceivesDamage,
      ctx |-> AsyncContext(p, Undefined, Undefined, o)] :
        p \in PlayerRefs, o \in PlayerRefs}
    \cup {[player |-> p, source |-> OnPlayerEarnedKill,
           ctx |-> AsyncContext(p, Undefined, Undefined, Undefined)] :
            p \in PlayerRefs}

\* q_manager.registerQuest(questDef, scope, ctx) of the asynchronous variant
AsyncRegisterQuest ==
    \E r \in AsyncRegistrations :
        /\ nextId <= MaxAsyncInstances
        /\ Len(calls) < MaxCalls
        /\ AsyncBecomes(asyncRegisterQuest(AsyncManager,
                            AsyncCall("registerQuest", r.ctx, NoSource, << >>),
                            r.questDef, r.scope, r.ctx))
        /\ UNCHANGED <<g_activePlayers, svars, gameMode>>

\* q_manager.resetPlayer(player) of the asynchronous variant
AsyncResetPlayer ==
    \E player \in PlayerRefs :
        /\ AsyncBecomes(asyncResetPlayer(AsyncManager, player))
        /\ UNCHANGED <<g_activePlayers, svars, gameMode>>

\* A hook starts q_manager.updatePlayer(player, source, ctx) and returns
\* without awaiting it.
AsyncUpdatePlayer ==
    \E e \in AsyncEvents :
        /\ Len(calls) < MaxCalls
        /\ AsyncBecomes(asyncUpdatePlayer(AsyncManager, e.player, e.source, e.ctx))
        /\ UNCHANGED <<g_activePlayers, svars, gameMode>>

\* A suspended call resumes.
AsyncResume ==
    /\ calls # << >>
    /\ asyncResume(AsyncManager).nextId <= MaxAsyncInstances + 1
    /\ AsyncBecomes(asyncResume(AsyncManager))
    /\ UNCHANGED <<g_activePlayers, svars, gameMode>>

\* The asynchronous init with the self-damage quest at Game scope, up to
\* the await of its registerQuest.
asyncInit(st) ==
    asyncRegisterQuest([st EXCEPT !.activeQuests = << >>,
                                  !.pastQuests = << >>,
                                  !.activeGlobalQuest = Undefined],
                       AsyncCall("init", AsyncNoContext, NoSource, << >>),
                       SelfDamageQuestDefinition, ScopeGame, AsyncNoContext)

\* OnGameModeStarted of the self-damage variant, from the end of its wait:
\* q_manager.init with the self-damage quest.  The engine calls it once.
SelfDamageInit ==
    /\ inst = << >>
    /\ AsyncBecomes(asyncInit(AsyncManager))
    /\ UNCHANGED <<g_activePlayers, svars, gameMode>>

\* OnPlayerDamaged(eventPlayer, eventOtherPlayer) of the self-damage
\* variant: updatePlayer is started and not awaited.
OnPlayerDamaged ==
    \E eventPlayer \in PlayerRefs : \E eventOtherPlayer \in PlayerRefs :
        /\ Len(calls) < MaxCalls
        /\ AsyncBecomes(asyncUpdatePlayer(AsyncManager, eventPlayer,
                            OnPlayerReceivesDamage,
                            AsyncContext(eventPlayer, Undefined, Undefined,
                                         eventOtherPlayer)))
        /\ UNCHANGED <<g_activePlayers, svars, gameMode>>

----------------------------------------------------------------------------
\* The game hooks of the synchronous script.

\* Quest instances constructed in one run of the hooks.
MaxHookInstances == 4

\* The players the hooks are called with: two humans (1 and 4), an AI
\* soldier, and a player for whom mod.GetObjId reports -1.
HookPlayers == {1, 2, 4, -1}

\* The players who earn kills: the human and the AI soldier.
KillingPlayers == {1, 2}

\* isPlayerAi
isPlayerAi(player) == player = 2

\* The registry of quests of the synchronous script.
SyncQuestRegistry == <<firstBlood_Quest, pistolKills_Quest>>

\* assignRandomQuestToPlayer, the draws of the two selections made explicit.
assignRandomQuestToPlayer(m, player, roll, perkRoll) ==
    IF player = Undefined \/ hasPlayerQuest(m, player) \/ isPlayerAi(player)
    THEN m
    ELSE LET quest == pickRandomQuestForScope(SyncQuestRegistry, ScopePlayer, roll)
         IN IF quest = NoQuest
            THEN m
            ELSE registerQuest(m, quest, ScopePlayer,
                               QuestContext(player, Undefined, Undefined, NoWeapon),
                               perkRoll)

RECURSIVE assignAll(_, _, _, _, _)
\* for (const player of g_activePlayers) assignRandomQuestToPlayer(player),
\* from index i.
assignAll(m, players, i, roll, perkRoll) ==
    IF i > Len(players)
    THEN m
    ELSE assignAll(assignRandomQuestToPlayer(m, players[i], roll, perkRoll),
                   players, i + 1, roll, perkRoll)

\* OnGameModeStarted after its wait: init with the first template of the
\* registry at Game scope, then a quest for every tracked player.
gameModeStarted(m, players, roll, perkRoll) ==
    assignAll(init(m, <<[quest |-> SyncQuestRegistry[1], scope |-> ScopeGame,
                         ctx |-> NoContext]>>, <<perkRoll>>),
              players, 1, roll, perkRoll)

\* The draws of the hooks' selections: of a quest at Player scope and of
\* the perk of the quest selected.
HookRolls == QuestRolls(EligibleQuests(SyncQuestRegistry, ScopePlayer))
HookPerkRolls == Rolls(EligiblePerks(pistolKills_Quest, ScopePlayer))

\* OnGameModeStarted up to its await mod.Wait(1).  The engine calls it once.
OnGameModeStarted ==
    /\ gameMode = "idle"
    /\ gameMode' = "waiting"
    /\ UNCHANGED <<qvars, svars, calls>>

\* The wait of OnGameModeStarted ends and the function runs to its end.
GameModeWaitEnds ==
    \E roll \in HookRolls : \E perkRoll \in HookPerkRolls :
        /\ gameMode = "waiting"
        /\ nextId + Len(g_activePlayers) <= MaxHookInstances
        /\ Becomes(gameModeStarted(Manager, g_activePlayers, roll, perkRoll))
        /\ gameMode' = "started"
        /\ UNCHANGED <<g_activePlayers, svars, calls>>

\* OnPlayerDeployed(eventPlayer)
OnPlayerDeployed ==
    \E eventPlayer \in HookPlayers :
      \E roll \in HookRolls : \E perkRoll \in HookPerkRolls :
        /\ nextId <= MaxHookInstances
        /\ g_activePlayers' = ensurePlayerTracked(g_activePlayers, eventPlayer)
        /\ Becomes(assignRandomQuestToPlayer(Manager, eventPlayer, roll, perkRoll))
        /\ UNCHANGED <<svars, calls, gameMode>>

\* OnPlayerEarnedKill(eventPlayer, eventOtherPlayer, eventDeathType,
\* eventWeaponUnlock)
OnPlayerEarnedKill_Hook ==
    \E eventPlayer \in KillingPlayers : \E eventWeaponUnlock \in {Sidearm_P18, Rifle_M4} :
        LET m == updatePlayer(Manager, eventPlayer, OnPlayerEarnedKill,
                              QuestContext(eventPlayer, Undefined, Undefined,
                                           eventWeaponUnlock),
                              g_activePlayers)
        IN /\ Becomes(m)
           /\ SpeedBecomes(applyPerks(Speed, m.out.perks, 1))
           /\ UNCHANGED <<g_activePlayers, calls, gameMode>>

Next ==
    \/ ManagerInit
    \/ RegisterQuest
    \/ UnregisterQuest
    \/ ResetPlayer
    \/ UpdatePlayer
    \/ OnPlayerJoinGame
    \/ OnPlayerLeaveGame
    \/ WaitEnds

Spec == Init /\ [][Next]_vars

\* The speed mechanism on its own: applications, reverts, joins and leaves.
NextSpeed ==
    \/ ApplySpeed
    \/ WaitEnds
    \/ OnPlayerJoinGame
    \/ OnPlayerLeaveGame

SpecSpeed == Init /\ [][NextSpeed]_vars

\* The asynchronous variant: registrations, resets, hooks that start
\* updatePlayer, and the resumption of suspended calls.
NextAsync ==
    \/ AsyncRegisterQuest
    \/ AsyncResetPlayer
    \/ AsyncUpdatePlayer
    \/ AsyncResume

SpecAsync == Init /\ [][NextAsync]_vars

\* The self-damage script: init once, damage hooks, resumptions.
NextSelfDamage ==
    \/ SelfDamageInit
    \/ OnPlayerDamaged
    \/ AsyncResume

SpecSelfDamage == Init /\ [][NextSelfDamage]_vars

\* The synchronous script as the engine drives it: the game mode starts,
\* players join, deploy, kill and leave, waits end.
NextHooks ==
    \/ OnGameModeStarted
    \/ GameModeWaitEnds
    \/ OnPlayerJoinGame
    \/ OnPlayerDeployed
    \/ OnPlayerEarnedKill_Hook
    \/ OnPlayerLeaveGame
    \/ WaitEnds

SpecHooks == Init /\ [][NextHooks]_vars

----------------------------------------------------------------------------
\* Vocabulary of the properties.

\* How often x occurs in a sequence.
CountIn(seq, x) == Cardinality({i \in 1 .. Len(seq) : seq[i] = x})

\* The ids of all instances constructed so far.
Instances == 1 .. Len(inst)

\* The manager state after updatePlayer is called with event e.
AfterEvent(e) ==
    updatePlayer(Manager, e.player, e.source, e.ctx, g_activePlayers)

\* The instances event e collects, and those it runs the pipeline on.
Collected(e) ==
    LET ids == relevantQuests(Manager, enrichedContext(e.player, e.source, e.ctx))
    IN {ids[i] : i \in 1 .. Len(ids)}

Matching(e) ==
    {id \in Collected(e) :
        e.source \in QuestDefinition(inst[id].quest).updateSources}

\* What the template's update returns for instance id under event e, seen
\* from the state before the event.
UpdateOf(id, e) ==
    LET progress == inst[id].currentProgress
    IN UpdateFn(QuestDefinition(inst[id].quest).update,
                IF progress.state = NotStarted
                THEN [progress EXCEPT !.state = InProgress]
                ELSE progress,
                enrichedContext(e.player, e.source, e.ctx))

\* The notifications of a call that name instance id.
NotificationsFor(out, id) ==
    CountIn(out.started, id) + CountIn(out.completed, id)
    + Cardinality({i \in 1 .. Len(out.progress) : out.progress[i].id = id})

\* The error reports of a call that name instance id.
ErrorsFor(out, id) ==
    Cardinality({i \in 1 .. Len(out.errors) : out.errors[i].id = id})

\* The perk applications of a call that completion handling itself made for
\* instance id (the recipients were handed to apply).
CompletionPerksFor(out, id) ==
    Cardinality({i \in 1 .. Len(out.perks) :
                    out.perks[i].id = id /\ out.perks[i].given})

----------------------------------------------------------------------------
----------------------------------------------------------------------------
\* The active Player-scoped instances of the pistol kill template.
PistolPlayerInstances ==
    {id \in Instances :
        /\ inst[id].quest = pistolKills_Quest.name
        /\ inst[id].scope = ScopePlayer
        /\ inst[id].player # Undefined
        /\ IsActive(Manager, id)}

\* Event e is a pistol kill of the player instance id is bound to.
QualifyingKill(e, id) ==
    /\ e.source = OnPlayerEarnedKill
    /\ GetObjId(enrichedContext(e.player, e.source, e.ctx).eventPlayer)
         = GetObjId(inst[id].player)
    /\ isPistolWeapon(e.ctx.eventWeaponUnlock)

\* C2.  A Player-scoped pistol kill instance bound to player P (target 10)
\* counts one per qualifying kill of P and nothing else.  With 9 kills it has
\* current 9, percent 90, state InProgress and the queries for P still find
\* it; the 10th kill gives current 10, percent 100, state Completed, exactly
\* one completion notification in its whole life, and getPlayerQuest(P) no
\* longer returns it (returns nothing when P has no other instance).
C2_PistolTenKills ==
    \A id \in PistolPlayerInstances :
        LET progress == inst[id].currentProgress
            P == inst[id].player
        IN /\ progress.target = 10
           /\ progress.current \in 0 .. 9
           /\ progress.current > 0 => progress.state = InProgress
           /\ life[id].completions = 0
           /\ \E i \in 1 .. Len(getPlayerQuests(Manager, P)) :
                 getPlayerQuests(Manager, P)[i] = id
           /\ getPlayerQuests(Manager, P) = <<id>> =>
                 /\ getPlayerQuest(Manager, P) = id
                 /\ hasPlayerQuest(Manager, P)
           /\ progress.current = 9 =>
                 /\ percent(progress.current, progress.target) = 90
                 /\ progress.state = InProgress
           /\ \A e \in Events :
                LET m == AfterEvent(e)
                    after == m.inst[id].currentProgress
                IN IF ~QualifyingKill(e, id)
                   THEN /\ after.current = progress.current
                        /\ after.target = progress.target
                        /\ CountIn(m.out.completed, id) = 0
                   ELSE IF progress.current < 9
                   THEN /\ after.current = progress.current + 1
                        /\ after.target = 10
                        /\ after.state = InProgress
                        /\ CountIn(m.out.completed, id) = 0
                        /\ IsActive(m, id)
                   ELSE /\ after.current = 10
                        /\ after.target = 10
                        /\ percent(after.current, after.target) = 100
                        /\ after.state = Completed
                        /\ CountIn(m.out.completed, id) = 1
                        /\ m.life[id].completions = 1
                        /\ getPlayerQuest(m, P) # id
                        /\ getPlayerQuests(Manager, P) = <<id>> =>
                              /\ getPlayerQuest(m, P) = Undefined
                              /\ ~hasPlayerQuest(m, P)

\* The tenth kill has been delivered: the instance is in history with
\* current 10 after one completion, and its player has no quest.
C2_Witness ==
    \E id \in Instances :
        /\ inst[id].quest = pistolKills_Quest.name
        /\ inst[id].scope = ScopePlayer
        /\ inst[id].currentProgress =
              [current |-> 10, target |-> 10, state |-> Completed]
        /\ life[id].completions = 1
        /\ IsPast(Manager, id)
        /\ getPlayerQuest(Manager, inst[id].player) = Undefined

----------------------------------------------------------------------------
\* The template's update throws for instance id on event e, which matches it.
UpdateThrows(e, id) == id \in Matching(e) /\ UpdateOf(id, e).threw

Promoted(id) ==
    IF inst[id].currentProgress.state = NotStarted
    THEN [inst[id].currentProgress EXCEPT !.state = InProgress]
    ELSE inst[id].currentProgress

----------------------------------------------------------------------------
\* Processing instance f on event e raises an error inside the pipeline: its
\* update throws, or it completes and its perk's apply or its onComplete
\* throws.
Fails(e, f) ==
    /\ f \in Matching(e)
    /\ LET u == UpdateOf(f, e)
       IN \/ u.threw
          \/ /\ \/ u.result.nextState = Completed
                \/ u.result.state = Completed
             /\ \/ /\ inst[f].perkInstance # NoPerk
                   /\ PerkDefinition(inst[f].perkInstance).apply = "throws"
                \/ QuestDefinition(inst[f].quest).onComplete = "throws"

\* The manager as it would be had instance f not been registered.
Without(m, f) ==
    [m EXCEPT !.activeQuests = SelectSeq(@, LAMBDA i : i # f),
              !.activeGlobalQuest = IF @ = f THEN Undefined ELSE @]

\* What a call emitted about instance id.
EmittedFor(out, id) ==
    [started |-> CountIn(out.started, id),
     progress |-> SelectSeq(out.progress, LAMBDA n : n.id = id),
     completed |-> CountIn(out.completed, id),
     errors |-> SelectSeq(out.errors, LAMBDA n : n.id = id),
     perks |-> SelectSeq(out.perks, LAMBDA n : n.id = id),
     onCompletes |-> CountIn(out.onCompletes, id)]

\* C4.  When processing one matching instance of an event raises an error
\* (in its update, its perk's apply or its onComplete), every other matching
\* instance is still run through the pipeline by the same call and ends with
\* the Progress, the life record and the notifications it would have had if
\* the failing instance had not been registered; the error is reported and
\* the manager keeps processing later events in the same way.
C4_FailureIsolated ==
    \A e \in Events :
        LET m == AfterEvent(e)
        IN \A f \in Instances :
              Fails(e, f) =>
                  LET w == updatePlayer(Without(Manager, f), e.player,
                                        e.source, e.ctx, g_activePlayers)
                  IN /\ ErrorsFor(m.out, f) >= 1
                     /\ \A id \in Matching(e) \ {f} :
                          /\ m.life[id].pipeline = "ran"
                          /\ m.inst[id] = w.inst[id]
                          /\ m.life[id] = w.life[id]
                          /\ EmittedFor(m.out, id) = EmittedFor(w.out, id)
                          /\ IsActive(m, id) = IsActive(w, id)
                          /\ IsPast(m, id) = IsPast(w, id)

\* A failing Team instance and a pistol instance of the same team registered
\* after it: the failure is on record and the later instance has counted a
\* kill, which only an event that also reached the failing instance, and
\* processed it first, can have delivered.
C4_Witness ==
    \E f \in Instances : \E id \in Instances :
        /\ f < id
        /\ inst[f].scope = ScopeTeam /\ inst[id].scope = ScopeTeam
        /\ inst[f].team = inst[id].team
        /\ IsActive(Manager, f)
        /\ "update" \in life[f].errors
        /\ inst[id].quest = pistolKills_Quest.name
        /\ inst[id].currentProgress.current > 0

----------------------------------------------------------------------------
\* A call emitted nothing about an instance.
NothingEmitted ==
    [started |-> 0, progress |-> << >>, completed |-> 0, errors |-> << >>,
     perks |-> << >>, onCompletes |-> 0]

\* No query of manager m answers with instance id.
Unreachable(m, id) ==
    /\ \A p \in PlayerRefs :
          /\ getPlayerQuest(m, p) # id
          /\ hasPlayerQuest(m, p) =>
                \E j \in 1 .. Len(m.inst) : j # id /\ getPlayerQuest(m, p) = j
    /\ \A sq \in Squads : getSquadQuest(m, sq) # id
    /\ \A t \in Teams : getTeamQuest(m, t) # id
    /\ getGlobalQuest(m) # id

\* C5.  An instance that has completed and is in history is in neither the
\* active list nor the Game slot, no query returns or reports it, and no
\* updatePlayer call collects it, changes its Progress or emits a
\* notification, perk apply, onComplete or error for it.
C5_CompletedIsInert ==
    \A id \in Instances :
        IsPast(Manager, id) =>
            /\ inst[id].currentProgress.state = Completed
            /\ life[id].completions = 1
            /\ ~IsActive(Manager, id)
            /\ Unreachable(Manager, id)
            /\ \A e \in Events :
                 LET m == AfterEvent(e)
                 IN /\ id \notin Collected(e)
                    /\ m.inst[id] = inst[id]
                    /\ m.life[id] = life[id]
                    /\ EmittedFor(m.out, id) = NothingEmitted
                    /\ Unreachable(m, id)

\* A Team instance completed by its first kill event is in history, and a
\* pistol instance of the same team, registered after it, has counted two
\* kills: the second of them was delivered with the first instance archived.
C5_Witness ==
    \E id \in Instances : \E j \in Instances :
        /\ id < j
        /\ IsPast(Manager, id)
        /\ inst[id].quest \in {throwingCallbacks_Quest.name,
                               throwingPerk_Quest.name}
        /\ inst[id].scope = ScopeTeam /\ inst[j].scope = ScopeTeam
        /\ inst[id].team = inst[j].team
        /\ inst[j].quest = pistolKills_Quest.name
        /\ inst[j].currentProgress.current >= 2

----------------------------------------------------------------------------
\* C6.  An updatePlayer call whose event kind is not among a template's
\* updateSources leaves the Progress of every instance of that template as it
\* was (a NotStarted instance stays NotStarted), whether or not the call
\* collects the instance, and emits nothing about it.
C6_UndeclaredSourceNoEffect ==
    \A e \in Events :
        LET m == AfterEvent(e)
        IN \A id \in Instances :
              e.source \notin QuestDefinition(inst[id].quest).updateSources =>
                  /\ m.inst[id] = inst[id]
                  /\ EmittedFor(m.out, id) = NothingEmitted
                  /\ m.life[id].pipeline # "ran" \/ life[id].pipeline = "ran"
                  /\ [m.life[id] EXCEPT !.pipeline = "never"]
                        = [life[id] EXCEPT !.pipeline = "never"]
                  /\ IsActive(m, id) = IsActive(Manager, id)

\* An active instance has been collected by an event of a kind its template
\* does not declare, and by no other event: it is still NotStarted.
C6_Witness ==
    \E id \in Instances :
        /\ IsActive(Manager, id)
        /\ life[id].pipeline = "skipped"
        /\ inst[id].currentProgress.state = NotStarted

----------------------------------------------------------------------------
\* The Game-scoped instances that manager m holds as active.
ActiveGameInstances(m) ==
    {j \in 1 .. Len(m.inst) : m.inst[j].scope = ScopeGame /\ IsActive(m, j)}

\* C7.  Registering with scope Game leaves exactly one active Game-scoped
\* instance, the one just created, and getGlobalQuest returns it.  In every
\* state the Game slot, when occupied, holds the Game instance created last;
\* every other Game instance is out of reach of the queries and of every
\* event; and the active list holds no Game-scoped instance.
C7_OneGameInstance ==
    /\ \A i \in 1 .. Len(activeQuests) : inst[activeQuests[i]].scope # ScopeGame
    /\ activeGlobalQuest # Undefined =>
          /\ inst[activeGlobalQuest].scope = ScopeGame
          /\ \A j \in Instances :
                inst[j].scope = ScopeGame => j <= activeGlobalQuest
    /\ \A j \in Instances :
          (inst[j].scope = ScopeGame /\ j # activeGlobalQuest) =>
              /\ ~IsActive(Manager, j)
              /\ Unreachable(Manager, j)
              /\ \A e \in Events :
                    LET m == AfterEvent(e)
                    IN /\ j \notin Collected(e)
                       /\ m.inst[j] = inst[j]
                       /\ EmittedFor(m.out, j) = NothingEmitted
    /\ \A questDef \in QuestDefinitions :
         \A roll \in Rolls(EligiblePerks(questDef, ScopeGame)) :
            LET m == registerQuest(Manager, questDef, ScopeGame, NoContext, roll)
            IN /\ getGlobalQuest(m) = nextId
               /\ ActiveGameInstances(m) = {nextId}
               /\ m.activeQuests = activeQuests
               /\ \A j \in Instances :
                     inst[j].scope = ScopeGame => Unreachable(m, j)

\* Two Game registrations: the second instance holds the slot and the first,
\* which never completed, is out of it.
C7_Witness ==
    \E j \in Instances :
        /\ inst[j].scope = ScopeGame
        /\ j < activeGlobalQuest
        /\ life[j].completions = 0
        /\ getGlobalQuest(Manager) = Len(inst)

----------------------------------------------------------------------------
\* The scopes whose instances live in the active list.
ListScopes == {ScopePlayer, ScopeSquad, ScopeTeam}

\* C8.  From any manager state, registerQuest with scope Player, Squad or
\* Team followed at once by unregisterQuest of the returned instance leaves
\* the active list with the same instances in the same order as before the
\* registration, adds nothing to history and leaves the Game slot alone.
C8_RegisterThenUnregister ==
    \A questDef \in QuestDefinitions : \A scope \in ListScopes :
      \A ctx \in RegisterContexts(scope) \cup {NoContext} :
        \A roll \in Rolls(EligiblePerks(questDef, scope)) :
           LET registered == registerQuest(Manager, questDef, scope, ctx, roll)
               m == unregisterQuest(registered, nextId)
           IN /\ registered.activeQuests = Append(activeQuests, nextId)
              /\ m.activeQuests = activeQuests
              /\ m.pastQuests = pastQuests
              /\ m.activeGlobalQuest = activeGlobalQuest
              /\ ~IsActive(m, nextId)

\* The instance registered last was unregistered before any event reached
\* it, and an older Squad or Team instance is still in the active list (so
\* it was unregisterQuest, not resetPlayer, that removed the last one).
C8_Witness ==
    /\ Len(inst) >= 2
    /\ inst[Len(inst)].scope \in ListScopes
    /\ life[Len(inst)].pipeline = "never"
    /\ ~IsActive(Manager, Len(inst))
    /\ ~IsPast(Manager, Len(inst))
    /\ \E j \in Instances :
          /\ j < Len(inst)
          /\ inst[j].scope \in {ScopeSquad, ScopeTeam}
          /\ IsActive(Manager, j)

\* C9.  unregisterQuest on an instance that is neither in the active list
\* nor the holder of the Game slot (unregistered before, completed, or a
\* replaced Game instance) changes nothing: the active list, the Game slot
\* and history stay as they are and no error is raised.  For every instance
\* a second unregisterQuest changes nothing the first has not changed.
C9_UnregisterIdempotent ==
    \A id \in Instances :
        LET once == unregisterQuest(Manager, id)
        IN /\ ~IsActive(Manager, id) =>
                 /\ once.activeQuests = activeQuests
                 /\ once.activeGlobalQuest = activeGlobalQuest
                 /\ once.pastQuests = pastQuests
                 /\ once.out.errors = << >>
                 /\ once = Manager
           /\ ~IsActive(once, id)
           /\ unregisterQuest(once, id) = once
           /\ once.out.errors = << >>

\* One instance has completed and is in history, another one is in neither
\* the active list, the Game slot nor history: unregisterQuest may be called
\* on either of them.
C9_Witness ==
    \E id \in Instances : \E j \in Instances :
        /\ IsPast(Manager, id) /\ ~IsActive(Manager, id)
        /\ ~IsPast(Manager, j) /\ ~IsActive(Manager, j)

----------------------------------------------------------------------------
\* The tokens issued so far.
Tokens == 1 .. Len(applied)

\* Tokens a and b belong to two timed applications to the same player, b
\* the later one.
TwoTimed(a, b) ==
    /\ a < b
    /\ applied[a].playerId = applied[b].playerId
    /\ applied[a].timed /\ applied[b].timed

\* C10.  The continuation of a timed speed effect resets its player's
\* multiplier, and clears the recorded token, exactly when the token on
\* record for the player is the one the effect was issued; otherwise it
\* changes neither.  Hence, of two timed effects on the same player, a wait
\* of the first that ends while the second is still waiting leaves the
\* multiplier boosted, whatever else was applied, joined or left meanwhile;
\* and a wait ends without reverting only when a later application to the
\* same player has replaced its token.
C10_RevertOnlyUnderOwnToken ==
    /\ timers # << >> =>
          LET timer == Head(timers)
              sp == revertSpeedMultiplier(Speed)
          IN /\ applied[timer.token].playerId = timer.playerId
             /\ IF g_playerSpeedTokens[timer.playerId] = timer.token
                THEN /\ sp.multiplier[timer.playerId] = NormalSpeed
                     /\ sp.tokens[timer.playerId] = Undefined
                ELSE /\ sp.multiplier = speedMultiplier
                     /\ sp.tokens = g_playerSpeedTokens
             /\ \A id \in PlayerIds \ {timer.playerId} :
                   /\ sp.multiplier[id] = speedMultiplier[id]
                   /\ sp.tokens[id] = g_playerSpeedTokens[id]
    /\ \A a \in Tokens : \A b \in Tokens :
          (TwoTimed(a, b) /\ applied[a].fired /\ ~applied[b].fired) =>
              /\ speedMultiplier[applied[a].playerId] = BoostSpeed
              /\ g_playerSpeedTokens[applied[a].playerId] >= b
    /\ \A a \in Tokens :
          /\ applied[a].reverted => applied[a].fired
          /\ applied[a].fired => applied[a].timed
          /\ (applied[a].fired /\ ~applied[a].reverted) =>
                \E b \in Tokens :
                    b > a /\ applied[b].playerId = applied[a].playerId

\* Two successive timed effects on one player: the wait of the first has
\* ended with a stale token and reverted nothing, the second is still
\* waiting and the player is boosted.
C10_Witness ==
    \E a \in Tokens : \E b \in Tokens :
        /\ b = a + 1
        /\ TwoTimed(a, b)
        /\ applied[a].fired /\ ~applied[a].reverted
        /\ ~applied[b].fired
        /\ g_playerSpeedTokens[applied[a].playerId] = b
        /\ speedMultiplier[applied[a].playerId] = BoostSpeed

----------------------------------------------------------------------------
\* The tokens issued for player id pid, and the most recent of them.
TokensOf(pid) == {a \in Tokens : applied[a].playerId = pid}

LatestOf(pid) == CHOOSE a \in TokensOf(pid) : \A b \in TokensOf(pid) : b <= a

\* The pending waits that carry token a.
PendingFor(a) == {i \in 1 .. Len(timers) : timers[i].token = a}

\* C11.  When the most recent effect applied to a player is a timed one, the
\* player stays boosted with that effect's token on record and its wait
\* pending until that wait ends, and from then on the multiplier is back to
\* normal and the player has no entry in the token table.  A player who has
\* been boosted is back to normal only in that case.  With two overlapping
\* timed effects the revert is the one made at the end of the second wait.
C11_RevertAtLatestExpiry ==
    \A pid \in PlayerIds :
        TokensOf(pid) # {} =>
            LET a == LatestOf(pid)
            IN /\ (applied[a].timed /\ ~applied[a].fired) =>
                     /\ speedMultiplier[pid] = BoostSpeed
                     /\ g_playerSpeedTokens[pid] = a
                     /\ Cardinality(PendingFor(a)) = 1
               /\ (applied[a].timed /\ applied[a].fired) =>
                     /\ applied[a].reverted
                     /\ speedMultiplier[pid] = NormalSpeed
                     /\ g_playerSpeedTokens[pid] = Undefined
                     /\ PendingFor(a) = {}
               /\ speedMultiplier[pid] = NormalSpeed =>
                     applied[a].timed /\ applied[a].fired

\* Two successive timed effects on one player, both waits over: the first
\* ended stale, the second reverted, the player is back to normal and has no
\* token on record.
C11_Witness ==
    \E a \in Tokens : \E b \in Tokens :
        /\ b = a + 1
        /\ TwoTimed(a, b)
        /\ applied[a].fired /\ ~applied[a].reverted
        /\ applied[b].fired /\ applied[b].reverted
        /\ LatestOf(applied[a].playerId) = b
        /\ speedMultiplier[applied[a].playerId] = NormalSpeed
        /\ g_playerSpeedTokens[applied[a].playerId] = Undefined

----------------------------------------------------------------------------
\* C12.  A wait that was pending when its player left the game finds the
\* token on record stale when it ends and reverts nothing: the multiplier
\* setter is not called for the departed player.
C12_DepartedPlayerNotReverted ==
    /\ timers # << >> =>
          LET timer == Head(timers)
              sp == revertSpeedMultiplier(Speed)
          IN applied[timer.token].left =>
                /\ g_playerSpeedTokens[timer.playerId] # timer.token
                /\ sp.multiplier = speedMultiplier
                /\ ~sp.applied[timer.token].reverted
    /\ \A a \in Tokens :
          (applied[a].left /\ applied[a].fired) => ~applied[a].reverted

----------------------------------------------------------------------------
\* C13.  An application with a zero or negative duration sets the multiplier
\* and schedules no revert of its own: while it is the most recent effect on
\* its player, the player is boosted with its token on record, no pending
\* wait carries that token, and every wait still pending for the player from
\* an earlier application holds a stale token, so that the wait ending next
\* changes neither the player's multiplier nor the token on record.  An
\* untimed application never fires and never reverts.
C13_UntimedNeverReverted ==
    /\ \A pid \in PlayerIds :
          (TokensOf(pid) # {} /\ ~applied[LatestOf(pid)].timed) =>
              LET a == LatestOf(pid)
              IN /\ speedMultiplier[pid] = BoostSpeed
                 /\ g_playerSpeedTokens[pid] = a
                 /\ PendingFor(a) = {}
                 /\ \A i \in 1 .. Len(timers) :
                       timers[i].playerId = pid =>
                           /\ timers[i].token < a
                           /\ timers[i].token # g_playerSpeedTokens[pid]
                 /\ timers # << >> =>
                       LET sp == revertSpeedMultiplier(Speed)
                       IN /\ sp.multiplier[pid] = BoostSpeed
                          /\ sp.tokens[pid] = a
    /\ \A a \in Tokens :
          ~applied[a].timed =>
              /\ ~applied[a].fired
              /\ ~applied[a].reverted
              /\ PendingFor(a) = {}

\* A timed effect followed by an untimed one on the same player: the wait
\* of the timed effect has ended and the player is still boosted under the
\* untimed effect's token.
C13_Witness ==
    \E a \in Tokens : \E b \in Tokens :
        /\ b = a + 1
        /\ applied[a].playerId = applied[b].playerId
        /\ applied[a].timed /\ ~applied[b].timed
        /\ applied[a].fired /\ ~applied[a].reverted
        /\ LatestOf(applied[b].playerId) = b
        /\ speedMultiplier[applied[b].playerId] = BoostSpeed
        /\ g_playerSpeedTokens[applied[b].playerId] = b
        /\ timers = << >>

----------------------------------------------------------------------------
\* The suspended updatePlayer calls of the asynchronous manager.
UpdateCalls == {k \in 1 .. Len(calls) : calls[k].op = "updatePlayer"}

\* C14.  The pipeline of one event runs to completion before the next event
\* starts: while an updatePlayer call is suspended between its snapshot and
\* the end of its completion handling no other updatePlayer call is in
\* flight; the instance a call is updating is still active and still has
\* the Progress the call read before its update; and hence no instance is
\* completed, or enters history, more than once.
C14_PipelineRunsToCompletion ==
    /\ Cardinality(UpdateCalls) <= 1
    /\ \A k \in UpdateCalls :
          calls[k].pc = "update" =>
              /\ IsActive(AsyncManager, calls[k].id)
              /\ inst[calls[k].id].currentProgress.current = calls[k].previous.current
              /\ inst[calls[k].id].currentProgress.state = calls[k].previous.state
    /\ \A id \in Instances :
          /\ life[id].completions <= 1
          /\ CountIn(pastQuests, id) <= 1

\* The same instance completed twice by two overlapping calls.
C14_DoubleCompletion ==
    \E id \in Instances : life[id].completions = 2 /\ CountIn(pastQuests, id) = 2

----------------------------------------------------------------------------
\* C15.  The perk bound to a quest instance is applied exactly once over the
\* instance's lifetime, at its completion and not before: an instance that
\* carries a perk has had as many applications as completions, never more
\* than one, whatever its template's onComplete does afterwards.
C15_PerkAppliedExactlyOnce ==
    \A id \in Instances :
        inst[id].perkInstance # NoPerk =>
            /\ life[id].perkApplies = life[id].completions
            /\ life[id].perkApplies <= 1

----------------------------------------------------------------------------
\* The perk bound to instance id throws in apply.
PerkThrows(id) ==
    /\ inst[id].perkInstance # NoPerk
    /\ PerkDefinition(inst[id].perkInstance).apply = "throws"

\* Event e completes instance id.
Completes(id, e) ==
    /\ id \in Matching(e)
    /\ ~UpdateOf(id, e).threw
    /\ \/ UpdateOf(id, e).result.nextState = Completed
       \/ UpdateOf(id, e).result.state = Completed

\* C16.  When the perk bound to an instance throws in apply during
\* completion handling, the error is caught (and reported for the acting
\* player) and the rest of completion happens in the same call: the apply
\* was attempted once, the instance leaves the active set, enters history
\* once, is notified as completed once, and its template's onComplete is
\* invoked once.
C16_PerkThrowCompletes ==
    \A e \in Events :
        LET m == AfterEvent(e)
        IN \A id \in Instances :
              (PerkThrows(id) /\ Completes(id, e)) =>
                  /\ m.life[id].perkApplies = life[id].perkApplies + 1
                  /\ m.life[id].completions = life[id].completions + 1
                  /\ "perkApply" \in m.life[id].errors
                  /\ ~IsActive(m, id)
                  /\ CountIn(m.pastQuests, id) = CountIn(pastQuests, id) + 1
                  /\ CountIn(m.out.completed, id) = 1
                  /\ m.inst[id].currentProgress.state = Completed
                  /\ QuestDefinition(inst[id].quest).onComplete # "none" =>
                        /\ CountIn(m.out.onCompletes, id) = 1
                        /\ m.life[id].onCompletes = life[id].onCompletes + 1

\* An instance whose perk threw at its completion: the failure is on
\* record, the instance is in history and not active, and its onComplete
\* has run.
C16_Witness ==
    \E id \in Instances :
        /\ PerkThrows(id)
        /\ "perkApply" \in life[id].errors
        /\ life[id].perkApplies = 1
        /\ life[id].completions = 1
        /\ life[id].onCompletes = 1
        /\ IsPast(Manager, id)
        /\ ~IsActive(Manager, id)

----------------------------------------------------------------------------
\* C17.  Completion handling is ordered.  For every event that completes an
\* instance: the apply made by completion handling ran while the instance
\* was in the active set; onComplete was invoked once, with the instance
\* out of the active set and the Game slot and in history; and the call
\* ends with the instance inactive and in history, also when onComplete
\* threw, in which case the failure is reported.
C17_CompletionOrdered ==
    \A e \in Events :
        LET m == AfterEvent(e)
        IN \A id \in Instances :
              Completes(id, e) =>
                  /\ inst[id].perkInstance # NoPerk =>
                        /\ CompletionPerksFor(m.out, id) = 1 \/ PerkThrows(id)
                        /\ m.life[id].perkApplies > life[id].perkApplies
                  /\ m.life[id].perkWhileActive
                  /\ QuestDefinition(inst[id].quest).onComplete # "none" =>
                        m.life[id].onCompletes = life[id].onCompletes + 1
                  /\ ~m.life[id].onCompleteWhileActive
                  /\ m.life[id].onCompleteInHistory
                  /\ ~IsActive(m, id)
                  /\ CountIn(m.pastQuests, id) = CountIn(pastQuests, id) + 1
                  /\ QuestDefinition(inst[id].quest).onComplete = "throws" =>
                        "onComplete" \in m.life[id].errors

\* Two completed instances: one whose perk was applied and whose onComplete
\* ran, one whose onComplete threw; both are in history and inactive.
C17_Witness ==
    \E a \in Instances : \E b \in Instances :
        /\ inst[a].perkInstance # NoPerk
        /\ life[a].perkApplies >= 1 /\ life[a].onCompletes = 1
        /\ life[a].perkWhileActive /\ ~life[a].onCompleteWhileActive
        /\ QuestDefinition(inst[b].quest).onComplete = "throws"
        /\ life[b].onCompletes = 1 /\ "onComplete" \in life[b].errors
        /\ life[b].onCompleteInHistory
        /\ IsPast(Manager, a) /\ ~IsActive(Manager, a)
        /\ IsPast(Manager, b) /\ ~IsActive(Manager, b)

----------------------------------------------------------------------------
\* The registrations registerQuest may be called with in the current state.
Registrations ==
    {r \in [questDef : QuestDefinitions, scope : QuestScope,
            ctx : UNION {RegisterContexts(sc) : sc \in QuestScope}] :
        /\ r.scope \in RegisterScopes(r.questDef)
        /\ r.ctx \in RegisterContexts(r.scope)}

\* C18.  When a template's onStart throws during registerQuest the error
\* does not propagate: the call returns the new instance, the instance is
\* in the active list or holds the Game slot, the quest-started
\* notification is emitted once, and the error is reported.
C18_OnStartThrowReported ==
    \A r \in Registrations :
        \A roll \in Rolls(EligiblePerks(r.questDef, r.scope)) :
            r.questDef.onStart = "throws" =>
                LET m == registerQuest(Manager, r.questDef, r.scope, r.ctx, roll)
                    id == nextId
                IN /\ Len(m.inst) = id
                   /\ m.inst[id].quest = r.questDef.name
                   /\ IsActive(m, id)
                   /\ CountIn(m.out.started, id) = 1
                   /\ ErrorsFor(m.out, id) = 1
                   /\ "onStart" \in m.life[id].errors

----------------------------------------------------------------------------
\* Active instance id is one that event e is meant for: its template
\* declares the event's kind and it is bound to the acting player (by id),
\* to the squad the context supplies, to the team the context supplies or
\* else the acting player's team, or it holds the Game slot.
Routed(id, e) ==
    LET P == IF e.ctx.eventPlayer # Undefined THEN e.ctx.eventPlayer ELSE e.player
        T == IF e.ctx.eventTeam # Undefined THEN e.ctx.eventTeam ELSE GetTeam(P)
        q == inst[id]
    IN /\ IsActive(Manager, id)
       /\ e.source \in QuestDefinition(q.quest).updateSources
       /\ \/ q.scope = ScopePlayer /\ q.player # Undefined
             /\ GetObjId(q.player) = GetObjId(P)
          \/ q.scope = ScopeSquad /\ e.ctx.eventSquad # Undefined
             /\ q.squad = e.ctx.eventSquad
          \/ q.scope = ScopeTeam /\ q.team = T
          \/ q.scope = ScopeGame /\ activeGlobalQuest = id

\* C19.  updatePlayer runs the update pipeline on exactly the active
\* instances the event is meant for, each of them once (its Progress is
\* what one run of its template's update leaves, it is notified of
\* progress and of completion at most once); every other instance keeps
\* its Progress, its place and its record and nothing is emitted for it;
\* an event meant for no instance changes nothing.
C19_RoutesToMatchingOnly ==
    \A e \in Events :
        LET m == AfterEvent(e)
        IN /\ \A id \in Instances :
                IF Routed(id, e)
                THEN /\ id \in Matching(e)
                     /\ m.life[id].pipeline = "ran"
                     /\ m.inst[id].currentProgress.current =
                            IF UpdateOf(id, e).threw
                            THEN UpdateOf(id, e).progress.current
                            ELSE UpdateOf(id, e).result.current
                     /\ m.life[id].completions <= life[id].completions + 1
                     /\ Len(EmittedFor(m.out, id).progress) <= 1
                     /\ CountIn(m.out.completed, id) <= 1
                ELSE /\ id \notin Matching(e)
                     /\ m.inst[id] = inst[id]
                     /\ EmittedFor(m.out, id) = NothingEmitted
                     /\ [m.life[id] EXCEPT !.pipeline = "never"]
                           = [life[id] EXCEPT !.pipeline = "never"]
                     /\ m.life[id].pipeline = "ran" => life[id].pipeline = "ran"
                     /\ IsActive(m, id) = IsActive(Manager, id)
                     /\ CountIn(m.pastQuests, id) = CountIn(pastQuests, id)
           /\ (\A id \in Instances : ~Routed(id, e)) =>
                 /\ m.inst = inst
                 /\ m.activeQuests = activeQuests
                 /\ m.pastQuests = pastQuests
                 /\ m.activeGlobalQuest = activeGlobalQuest
                 /\ m.nextId = nextId
                 /\ m.out = NoOutput

\* Two active pistol instances of different players: one has counted a
\* kill, the other has never been run through the pipeline.
C19_Witness ==
    \E a \in Instances : \E b \in Instances :
        /\ inst[a].quest = pistolKills_Quest.name
        /\ inst[b].quest = pistolKills_Quest.name
        /\ inst[a].scope = ScopePlayer /\ inst[b].scope = ScopePlayer
        /\ GetObjId(inst[a].player) # GetObjId(inst[b].player)
        /\ IsActive(Manager, a) /\ IsActive(Manager, b)
        /\ inst[a].currentProgress.current > 0
        /\ life[a].pipeline = "ran"
        /\ life[b].pipeline = "never"
        /\ inst[b].currentProgress = QuestProgress(pistolKills_Quest.defaultTarget)

----------------------------------------------------------------------------
\* Two references to the same player: different objects, one numeric id.
SamePlayer(p, o) == p # o /\ GetObjId(p) = GetObjId(o)

\* C20.  Player-scoped instances are found by the player's numeric id and
\* not by object reference, in the asynchronous manager as in the
\* synchronous one: for two references to the same player, updatePlayer
\* collects the same instances and resetPlayer removes the same instances.
C20_AsyncMatchesByPlayerId ==
    \A p \in PlayerRefs : \A o \in PlayerRefs :
        SamePlayer(p, o) =>
            /\ asyncGetPlayerQuests(AsyncManager, p)
                  = asyncGetPlayerQuests(AsyncManager, o)
            /\ asyncRelevantQuests(AsyncManager,
                    AsyncContext(p, Undefined, GetTeam(p), Undefined))
                  = asyncRelevantQuests(AsyncManager,
                        AsyncContext(o, Undefined, GetTeam(o), Undefined))
            /\ asyncResetPlayer(AsyncManager, p).activeQuests
                  = asyncResetPlayer(AsyncManager, o).activeQuests

----------------------------------------------------------------------------
\* The Progress of instance id as processQuestUpdate reads it before the
\* update: after the promotion of NotStarted to InProgress.
Snapshot(id) ==
    LET progress == inst[id].currentProgress
        promoted == IF progress.state = NotStarted
                    THEN [progress EXCEPT !.state = InProgress]
                    ELSE progress
    IN [current |-> promoted.current, target |-> promoted.target,
        percent |-> percent(promoted.current, promoted.target),
        state |-> promoted.state]

\* Results a template's update may return: counters that move the percent,
\* counters that leave it where it is, and a change of state alone.
UpdateResults ==
    {[current |-> c, target |-> t, state |-> st, nextState |-> NoHint] :
        c \in 0 .. 2, t \in {1, 2, 10, 300}, st \in {InProgress, Completed}}

\* The result differs from the snapshot in current, target or state, and
\* its percent differs from the snapshot's.
MovesPercent(previous, result) ==
    /\ \/ result.current # previous.current
       \/ result.target # previous.target
       \/ result.state # previous.state
    /\ percent(result.current, result.target) # previous.percent

\* The progress notifications in out are: one for instance id, with the
\* snapshot's percent and the result's, when expected; none for id otherwise.
ProgressNotified(out, id, expected, previous, result) ==
    EmittedFor(out, id).progress =
        IF expected
        THEN <<[id |-> id, previous |-> previous.percent,
                next |-> percent(result.current, result.target)]>>
        ELSE << >>

\* C21.  The update pipeline emits a progress notification for an instance
\* if and only if the update returned (did not throw), its result differs
\* from the snapshot taken after the promotion in current, target or state,
\* and the percent of the result differs from the snapshot's percent; the
\* notification carries both percents.  This holds for every event the
\* hooks deliver, and for every result a template's update may hand back,
\* among them counters that move while the percent stays.
C21_ProgressNotifiedIffPercentMoves ==
    /\ \A e \in Events :
          LET m == AfterEvent(e)
          IN \A id \in Instances :
                IF id \in Matching(e)
                THEN ProgressNotified(m.out, id,
                         /\ ~UpdateOf(id, e).threw
                         /\ MovesPercent(Snapshot(id), UpdateOf(id, e).result),
                         Snapshot(id), UpdateOf(id, e).result)
                ELSE EmittedFor(m.out, id).progress = << >>
    /\ \A id \in Instances :
          IsActive(Manager, id) =>
              \A result \in UpdateResults :
                  ProgressNotified(
                      applyUpdateResult(Manager, id, NoContext, Snapshot(id),
                                        result, g_activePlayers).out,
                      id, MovesPercent(Snapshot(id), result), Snapshot(id), result)

\* An active pistol instance that the pipeline has run on: its next pistol
\* kill is notified, and a result that moves the counters within the same
\* percent is notified to nobody.
C21_Witness ==
    \E id \in Instances :
        /\ IsActive(Manager, id)
        /\ inst[id].quest = pistolKills_Quest.name
        /\ life[id].pipeline = "ran"
        /\ inst[id].currentProgress.state = InProgress
        /\ \E e \in Events :
              /\ id \in Matching(e)
              /\ Len(EmittedFor(AfterEvent(e).out, id).progress) = 1
        /\ \E result \in UpdateResults :
              /\ result.current # Snapshot(id).current
              /\ result.target # Snapshot(id).target
              /\ percent(result.current, result.target) = Snapshot(id).percent
              /\ applyUpdateResult(Manager, id, NoContext, Snapshot(id), result,
                                   g_activePlayers).out.progress = << >>

----------------------------------------------------------------------------
\* The pool a template's perk is drawn from.
PerkPoolOf(questDef) ==
    IF questDef.hasPerkPool THEN questDef.perkPool ELSE PerkRegistry

\* Instance q of template questDef is bound as registration binds: no perk
\* when the template disables automatic perks or no perk of its pool lists
\* the scope, else a perk of its pool that lists the scope.
BoundFromPool(q, questDef) ==
    LET pool == PerkPoolOf(questDef)
        eligible == {i \in 1 .. Len(pool) : q.scope \in pool[i].availableScopes}
    IN /\ questDef.disableRandomPerk => q.perkInstance = NoPerk
       /\ eligible = {} => q.perkInstance = NoPerk
       /\ q.perkInstance # NoPerk =>
             \E i \in eligible : pool[i].name = q.perkInstance
       /\ (~questDef.disableRandomPerk /\ eligible # {}) => q.perkInstance # NoPerk

\* C22.  After registerQuest the instance has a bound perk only if the
\* template does not disable automatic perks; the perk comes from the
\* template's own pool when it has one and from the global registry
\* otherwise, and lists the instance's scope; when no perk of the pool is
\* eligible the instance has none and the registration succeeds all the
\* same.  The binding of an instance never changes afterwards.
C22_PerkBoundFromPool ==
    /\ \A r \in Registrations :
          \A roll \in Rolls(EligiblePerks(r.questDef, r.scope)) :
              LET m == registerQuest(Manager, r.questDef, r.scope, r.ctx, roll)
                  id == nextId
              IN /\ Len(m.inst) = id
                 /\ m.inst[id].scope = r.scope
                 /\ BoundFromPool(m.inst[id], r.questDef)
                 /\ IsActive(m, id)
                 /\ CountIn(m.out.started, id) = 1
    /\ \A id \in Instances :
          BoundFromPool(inst[id], QuestDefinition(inst[id].quest))

\* Two instances: one bound to the perk of its template's own pool, which
\* the registry does not hold, and one at Game scope with no perk, the
\* registry holding none for that scope.
C22_Witness ==
    \E a \in Instances : \E b \in Instances :
        /\ QuestDefinition(inst[a].quest).hasPerkPool
        /\ inst[a].perkInstance = ThrowingPerkDefinition.name
        /\ \A i \in 1 .. Len(PerkRegistry) :
              PerkRegistry[i].name # inst[a].perkInstance
        /\ inst[b].scope = ScopeGame
        /\ ~QuestDefinition(inst[b].quest).disableRandomPerk
        /\ inst[b].perkInstance = NoPerk
        /\ IsActive(Manager, a) /\ IsActive(Manager, b)

----------------------------------------------------------------------------
\* The lists of tracked players ensurePlayerTracked can build from up to two
\* joins: no two entries have the same id.
TrackedLists ==
    {<< >>} \cup {<<p>> : p \in PlayerRefs}
    \cup {ensurePlayerTracked(<<p>>, o) : p \in PlayerRefs, o \in PlayerRefs}

\* Instances of every scope, with the scope's holder bound and not bound.
ScopedInstances ==
    {QuestInstance(1, pistolKills_Quest, scope,
                   QuestContext(p, sq, t, NoWeapon)) :
        scope \in QuestScope, p \in {Undefined} \cup PlayerRefs,
        sq \in {Undefined} \cup Squads, t \in {Undefined} \cup Teams}

\* The players of a list that satisfy Keep, in list order.
Those(players, Keep(_)) == SelectSeq(players, Keep)

\* What the scope of q resolves to over the tracked players.
ResolvesTo(q, players, getSquad) ==
    LET none(x) == FALSE
        all(x) == TRUE
        bound(x) == GetObjId(x) = GetObjId(q.player)
        team(x) == GetTeam(x) = q.team
        squad(x) == GetSquad(x) = q.squad
    IN CASE q.scope = ScopeGame -> Those(players, all)
         [] q.scope = ScopePlayer ->
                IF q.player = Undefined THEN Those(players, none)
                ELSE Those(players, bound)
         [] q.scope = ScopeTeam ->
                IF q.team = Undefined THEN Those(players, none)
                ELSE Those(players, team)
         [] q.scope = ScopeSquad ->
                IF q.squad = Undefined \/ ~getSquad THEN Those(players, none)
                ELSE Those(players, squad)

\* C23.  playersMatchingQuest returns every tracked player for a Game
\* instance; the tracked player with the bound player's id, or nobody when
\* that id is not tracked, for a Player instance; the tracked players of
\* the bound team for a Team instance; the tracked players of the bound
\* squad for a Squad instance, and nobody when the engine has no squad
\* lookup; and nobody when the holder the scope requires is not bound.
\* This holds for every list of tracked players and every instance, and
\* for the instances and the tracked players of every reachable state.
C23_ScopeResolution ==
    /\ \A q \in ScopedInstances : \A players \in TrackedLists :
          \A getSquad \in BOOLEAN :
              playersMatchingQuestIn(q, players, getSquad)
                  = ResolvesTo(q, players, getSquad)
    /\ g_activePlayers \in TrackedLists
    /\ \A id \in Instances :
          playersMatchingQuest(inst[id], g_activePlayers)
              = ResolvesTo(inst[id], g_activePlayers, HasGetSquad)

\* A completed Team instance whose perk boosted the tracked player of its
\* team: the scope resolved to that player.
C23_Witness ==
    \E id \in Instances :
        /\ inst[id].scope = ScopeTeam
        /\ inst[id].perkInstance = SpeedBoostPerkDefinition.name
        /\ life[id].completions = 1
        /\ g_activePlayers # << >>
        /\ playersMatchingQuest(inst[id], g_activePlayers) = g_activePlayers
        /\ \E a \in Tokens : GetTeam(applied[a].playerId) = inst[id].team

----------------------------------------------------------------------------
\* The targets completion handling owes the perk of instance q: the players
\* its scope resolves to, else the acting player alone, else nobody.
TargetsFor(q, players, actor) ==
    LET resolved == ResolvesTo(q, players, HasGetSquad)
    IN IF resolved # << >>
       THEN resolved
       ELSE IF actor # Undefined THEN <<actor>> ELSE << >>

\* The applications in out that completion handling made for instance id.
CompletionApplies(out, id) ==
    SelectSeq(out.perks, LAMBDA n : n.id = id /\ n.given)

\* The player an event acts for.
Actor(e) == IF e.ctx.eventPlayer # Undefined THEN e.ctx.eventPlayer ELSE e.player

\* C24.  At the completion of an instance with a bound perk, apply is
\* handed the players the instance's scope resolves to when there are any,
\* and exactly the acting player when the scope resolves to nobody; the
\* targets are empty only when there is no acting player either.  The perk
\* boosts the targets it is handed.  This holds for every completing event
\* and, for the perk step on its own, for every tracked list and every
\* acting player, none included.
C24_PerkTargets ==
    /\ \A e \in Events :
          LET m == AfterEvent(e)
          IN \A id \in Instances :
                (Completes(id, e) /\ inst[id].perkInstance # NoPerk
                 /\ ~PerkThrows(id)) =>
                    LET applies == CompletionApplies(m.out, id)
                    IN /\ Len(applies) = 1
                       /\ applies[1].targets
                             = TargetsFor(inst[id], g_activePlayers, Actor(e))
                       /\ applies[1].targets # << >>
                       /\ applies[1].boosted = applies[1].targets
    /\ \A id \in Instances :
          (IsActive(Manager, id) /\ inst[id].perkInstance # NoPerk
           /\ ~PerkThrows(id)) =>
              \A players \in TrackedLists : \A actor \in {Undefined} \cup PlayerRefs :
                  LET m == completionPerk(Manager, id,
                               QuestContext(actor, Undefined, Undefined, NoWeapon),
                               players)
                      applies == CompletionApplies(m.out, id)
                  IN /\ Len(applies) = 1
                     /\ applies[1].targets = TargetsFor(inst[id], players, actor)
                     /\ applies[1].targets = << >> <=>
                           /\ ResolvesTo(inst[id], players, HasGetSquad) = << >>
                           /\ actor = Undefined

\* A perk has been applied at a completion, and an active instance with a
\* perk is about to complete while its scope resolves to nobody: the event
\* that completes it hands the perk the acting player alone.
C24_Witness ==
    /\ applied # << >>
    /\ \E id \in Instances : \E e \in Events :
          /\ Completes(id, e)
          /\ inst[id].perkInstance = SpeedBoostPerkDefinition.name
          /\ playersMatchingQuest(inst[id], g_activePlayers) = << >>
          /\ CompletionApplies(AfterEvent(e).out, id)[1].targets = <<Actor(e)>>

----------------------------------------------------------------------------
\* Weighted candidates.  A weight option is << >> for a candidate without a
\* randomWeight and <<w>> for one with weight w.
MaxCandidates == 3

CandidateWeights == {-1, 0, 1, 2}

WeightOptions == {<< >>} \cup {<<w>> : w \in CandidateWeights}

WeightLists ==
    UNION {[1 .. n -> WeightOptions] : n \in 1 .. MaxCandidates}

\* The perk candidates of a weight list, named by their position.
PerkCandidates(weights) ==
    [i \in 1 .. Len(weights) |->
        IF weights[i] = << >>
        THEN [name |-> i, availableScopes |-> QuestScope]
        ELSE [name |-> i, availableScopes |-> QuestScope,
              randomWeight |-> weights[i][1]]]

\* The quest candidates of a weight list, named by their position.
QuestCandidates(weights) ==
    [i \in 1 .. Len(weights) |->
        IF weights[i] = << >>
        THEN [name |-> i, availableScope |-> QuestScope]
        ELSE [name |-> i, availableScope |-> QuestScope,
              randomWeight |-> weights[i][1]]]

\* The weight a weight option stands for.
OptionWeight(option) == IF option = << >> THEN 1 ELSE option[1]

RECURSIVE Walked(_, _)
\* The sum of the first i weights.
Walked(weights, i) ==
    IF i = 0 THEN 0 ELSE OptionWeight(weights[i]) + Walked(weights, i - 1)

\* The total the draw is scaled by: W, and 1 when W <= 0.
DrawRange(weights) ==
    LET W == Walked(weights, Len(weights))
    IN IF W <= 0 THEN 1 ELSE W

\* The positions at which the draw minus the weights walked so far is <= 0.
Triggers(weights, roll) ==
    {i \in 1 .. Len(weights) : roll - Walked(weights, i) * RollScale <= 0}

\* The position weighted selection owes: the first trigger, else the last.
Selected(weights, roll) ==
    LET T == Triggers(weights, roll)
    IN IF T = {}
       THEN Len(weights)
       ELSE CHOOSE i \in T : \A j \in T : i <= j

\* The weight options of a list of definitions.
WeightsOf(definitions) ==
    [i \in 1 .. Len(definitions) |->
        IF "randomWeight" \in DOMAIN definitions[i]
        THEN <<definitions[i].randomWeight>>
        ELSE << >>]

\* Both pickers, on every candidate list and every draw, return the
\* candidate at the position weighted selection owes, which is a position
\* of the list.
WeightedSelectionCases ==
    \A weights \in WeightLists :
        /\ Rolls(PerkCandidates(weights))
              = 0 .. (DrawRange(weights) * RollScale - 1)
        /\ QuestRolls(QuestCandidates(weights))
              = 0 .. (DrawRange(weights) * RollScale - 1)
        /\ \A roll \in 0 .. (DrawRange(weights) * RollScale - 1) :
              /\ pickWeightedPerk(PerkCandidates(weights), roll).name
                    = Selected(weights, roll)
              /\ pickRandomQuestForScope(QuestCandidates(weights),
                                         ScopePlayer, roll).name
                    = Selected(weights, roll)
              /\ Selected(weights, roll) \in 1 .. Len(weights)

\* C25.  For every non-empty candidate list and every draw in [0, W), W
\* the sum of the weights with a missing weight counting 1 and W <= 0
\* treated as 1, weighted selection returns a member of the list: the
\* first candidate at which the draw minus the weights walked so far is
\* <= 0, and the last candidate when none triggers.  This holds for the
\* perk picker and for the quest picker on every candidate list, and for
\* the perk every registration in the current state binds.
C25_WeightedSelection ==
    /\ WeightedSelectionCases
    /\ \A r \in Registrations :
          LET eligible == EligiblePerks(r.questDef, r.scope)
          IN (eligible # << >> /\ ~r.questDef.disableRandomPerk) =>
                \A roll \in Rolls(eligible) :
                    LET m == registerQuest(Manager, r.questDef, r.scope, r.ctx, roll)
                        at == Selected(WeightsOf(eligible), roll)
                    IN /\ at \in 1 .. Len(eligible)
                       /\ m.inst[nextId].perkInstance = eligible[at].name

\* An instance carries a perk that weighted selection bound to it, and
\* among the candidate lists there is one where the second candidate is the
\* first to trigger and one, of total weight <= 0, where no candidate
\* triggers and the last is returned.
C25_Witness ==
    /\ \E id \in Instances :
          IsActive(Manager, id) /\ inst[id].perkInstance # NoPerk
    /\ \E weights \in WeightLists : \E roll \in Rolls(PerkCandidates(weights)) :
          /\ Len(weights) = 3
          /\ Triggers(weights, roll) # {}
          /\ pickWeightedPerk(PerkCandidates(weights), roll).name = 2
    /\ \E weights \in WeightLists : \E roll \in Rolls(PerkCandidates(weights)) :
          /\ Len(weights) = 2
          /\ Triggers(weights, roll) = {}
          /\ pickWeightedPerk(PerkCandidates(weights), roll).name = 2

----------------------------------------------------------------------------
\* Pools before filtering: each entry is a weight option and whether the
\* candidate lists ScopePlayer.
PoolShapes ==
    UNION {[1 .. n -> WeightOptions \X BOOLEAN] : n \in 0 .. MaxCandidates}

\* The scopes of a candidate that is, or is not, eligible at ScopePlayer.
ScopesOf(eligible) == IF eligible THEN {ScopePlayer, ScopeTeam} ELSE {ScopeGame}

\* The perk pool of a shape, its perks named by their position.
PerkPool(shape) ==
    [i \in 1 .. Len(shape) |->
        IF shape[i][1] = << >>
        THEN [name |-> i, availableScopes |-> ScopesOf(shape[i][2])]
        ELSE [name |-> i, availableScopes |-> ScopesOf(shape[i][2]),
              randomWeight |-> shape[i][1][1]]]

\* The quest registry of a shape, its templates named by their position.
QuestPool(shape) ==
    [i \in 1 .. Len(shape) |->
        IF shape[i][1] = << >>
        THEN [name |-> i, availableScope |-> ScopesOf(shape[i][2])]
        ELSE [name |-> i, availableScope |-> ScopesOf(shape[i][2]),
              randomWeight |-> shape[i][1][1]]]

\* The template that draws its perks from the pool of a shape.
PoolQuest(shape) ==
    [hasPerkPool |-> TRUE, perkPool |-> PerkPool(shape),
     disableRandomPerk |-> FALSE]

\* On every pool shape the two pickers agree: the same draws are possible,
\* every draw selects the candidate of the same position, and with nothing
\* eligible the quest picker selects nothing.
PickersAgree ==
    \A shape \in PoolShapes :
        LET perks == EligiblePerks(PoolQuest(shape), ScopePlayer)
            registry == QuestPool(shape)
        IN IF perks = << >>
           THEN \A roll \in QuestRolls(<< >>) :
                    pickRandomQuestForScope(registry, ScopePlayer, roll) = NoQuest
           ELSE /\ Rolls(perks) = QuestRolls(EligibleQuests(registry, ScopePlayer))
                /\ \A roll \in Rolls(perks) :
                      pickRandomQuestForScope(registry, ScopePlayer, roll).name
                          = pickWeightedPerk(perks, roll).name

\* C26.  The quest picker and the perk picker implement the same
\* selection: on eligible lists with the same weights in the same order and
\* with the same draw both select the candidate at the same index, for
\* every weight list, those of total <= 0 included; the quest picker
\* selects nothing when no template is eligible.  The perk a registration
\* in the current state binds is the one the quest picker selects among
\* templates weighted like the eligible perks.
C26_PickersSelectSameIndex ==
    /\ PickersAgree
    /\ \A r \in Registrations :
          LET eligible == EligiblePerks(r.questDef, r.scope)
          IN (eligible # << >> /\ ~r.questDef.disableRandomPerk) =>
                /\ Rolls(eligible) = QuestRolls(QuestCandidates(WeightsOf(eligible)))
                /\ \A roll \in Rolls(eligible) :
                      LET m == registerQuest(Manager, r.questDef, r.scope, r.ctx, roll)
                          at == pickRandomQuestForScope(
                                    QuestCandidates(WeightsOf(eligible)),
                                    r.scope, roll).name
                      IN m.inst[nextId].perkInstance = eligible[at].name

\* An instance carries a perk bound by selection; among the pool shapes one
\* of total weight <= 0 whose first candidate is filtered out has both
\* pickers select the third, and only the third, and one with nothing
\* eligible has the quest picker select nothing.
C26_Witness ==
    /\ \E id \in Instances : inst[id].perkInstance = SpeedBoostPerkDefinition.name
    /\ \E shape \in PoolShapes :
          LET perks == EligiblePerks(PoolQuest(shape), ScopePlayer)
          IN /\ Len(shape) = 3 /\ Len(perks) = 2
             /\ ~shape[1][2]
             /\ SumWeights(perks, 1) <= 0
             /\ \A roll \in Rolls(perks) :
                   /\ pickWeightedPerk(perks, roll).name = 3
                   /\ pickRandomQuestForScope(QuestPool(shape), ScopePlayer,
                                              roll).name = 3
    /\ \E shape \in PoolShapes :
          /\ Len(shape) = 2
          /\ EligibleQuests(QuestPool(shape), ScopePlayer) = << >>
          /\ pickRandomQuestForScope(QuestPool(shape), ScopePlayer, 0) = NoQuest

----------------------------------------------------------------------------
\* The ids of the instances constructed so far.
IdsOf(instances) == {instances[i].id : i \in 1 .. Len(instances)}

\* The manager states one more manager operation can produce that
\* constructs an instance: a registration, and an init with its first quest.
AfterConstruction ==
    {registerQuest(Manager, r.questDef, r.scope, r.ctx, 0) : r \in Registrations}
    \cup {init(Manager, initialQuests, <<0>>) :
              initialQuests \in {q \in InitialQuests : Len(q) = 1}}

\* C27.  Instance ids are strictly increasing in creation order and never
\* reused: any two instances ever constructed, whether active, replaced in
\* the Game slot, unregistered, archived or dropped by init, have different
\* ids, and the id of an instance constructed next, by registerQuest or by
\* init, is greater than every id given so far.
C27_IdsIncreaseAndAreNeverReused ==
    /\ \A a \in Instances : \A b \in Instances :
          a < b => inst[a].id < inst[b].id
    /\ \A a \in Instances : inst[a].id < nextId
    /\ \A m \in AfterConstruction :
          /\ Len(m.inst) = Len(inst) + 1
          /\ \A a \in Instances : m.inst[a] = inst[a] \/ m.inst[a].id = inst[a].id
          /\ m.inst[Len(m.inst)].id \notin IdsOf(inst)
          /\ \A a \in Instances : inst[a].id < m.inst[Len(m.inst)].id
          /\ m.nextId > m.inst[Len(m.inst)].id

\* An instance completed and was then dropped from history by init, and an
\* instance constructed afterwards is active under a greater id.
C27_Witness ==
    \E a \in Instances : \E b \in Instances :
        /\ life[a].completions = 1
        /\ ~IsPast(Manager, a) /\ ~IsActive(Manager, a)
        /\ IsActive(Manager, b)
        /\ inst[a].id < inst[b].id

----------------------------------------------------------------------------
\* The largest target of the Progress values percent is examined on.
MaxTarget == 40

\* p is 100 * current / target rounded to the nearest integer: the integer
\* above when the value is halfway, except where double precision puts the
\* value below the half.
IsRounded(p, current, target) ==
    /\ 2 * p * target <= 200 * current + target
    /\ 200 * current - target <= 2 * p * target
    /\ (2 * p * target = 200 * current - target)
          <=> (<<current, target>> \in HalvesRoundedDown)

\* What percent owes for a Progress: 0 for a target <= 0, else 100 once
\* current has reached the target, else the rounded hundredfold ratio.
IsPercent(p, current, target) ==
    IF target <= 0
    THEN p = 0
    ELSE /\ p \in 0 .. 100
         /\ IF current >= target
            THEN p = 100
            ELSE IsRounded(p, current, target)

\* percent on every Progress with current in 0 .. MaxTarget + 1 and target
\* in -2 .. MaxTarget: the owed value, and never less for a larger current.
PercentCases ==
    \A target \in -2 .. MaxTarget : \A current \in 0 .. MaxTarget + 1 :
        /\ IsPercent(percent(current, target), current, target)
        /\ \A more \in current .. MaxTarget + 1 :
              percent(current, target) <= percent(more, target)

----------------------------------------------------------------------------
\* Sequence longer extends sequence shorter at its end.
Extends(longer, shorter) ==
    /\ Len(longer) >= Len(shorter)
    /\ SubSeq(longer, 1, Len(shorter)) = shorter

\* The entries sequence longer has beyond those of shorter.
Added(longer, shorter) ==
    {longer[i] : i \in Len(shorter) + 1 .. Len(longer)}

\* C29.  Every instance in history has state Completed, appears in history
\* exactly once and is neither in the active list nor in the Game slot.  An
\* instance enters history only through completion handling: unregisterQuest,
\* resetPlayer and registerQuest leave history as it is, and the instances
\* an updatePlayer call adds to history are exactly those it completes.
C29_HistoryHoldsCompletedOnly ==
    /\ \A i \in 1 .. Len(pastQuests) :
          LET id == pastQuests[i]
          IN /\ id \in Instances
             /\ inst[id].currentProgress.state = Completed
             /\ life[id].completions = 1
             /\ CountIn(pastQuests, id) = 1
             /\ ~IsActive(Manager, id)
    /\ \A id \in Instances : unregisterQuest(Manager, id).pastQuests = pastQuests
    /\ \A player \in PlayerRefs : resetPlayer(Manager, player).pastQuests = pastQuests
    /\ \A r \in Registrations :
          registerQuest(Manager, r.questDef, r.scope, r.ctx, 0).pastQuests = pastQuests
    /\ \A e \in Events :
          LET m == AfterEvent(e)
          IN /\ Extends(m.pastQuests, pastQuests)
             /\ Added(m.pastQuests, pastQuests)
                   = {id \in Instances : Completes(id, e)}
             /\ \A id \in Added(m.pastQuests, pastQuests) :
                   /\ CountIn(m.pastQuests, id) = 1
                   /\ m.inst[id].currentProgress.state = Completed
                   /\ ~IsActive(m, id)

\* History holds a completed instance while another instance, in progress
\* and bound to a player, is active: unregistering it, or resetting its
\* player, removes it from the active list and history stays as it is.
C29_Witness ==
    /\ pastQuests # << >>
    /\ \E id \in Instances :
          /\ IsActive(Manager, id)
          /\ inst[id].player # Undefined
          /\ inst[id].currentProgress.state = InProgress
          /\ ~IsActive(unregisterQuest(Manager, id), id)
          /\ ~IsPast(unregisterQuest(Manager, id), id)
          /\ ~IsActive(resetPlayer(Manager, inst[id].player), id)
          /\ ~IsPast(resetPlayer(Manager, inst[id].player), id)

----------------------------------------------------------------------------
\* C30.  History only grows: whatever manager operation comes next,
\* registerQuest, unregisterQuest, resetPlayer, updatePlayer or init, every
\* instance in history is still there afterwards, at its place.
C30_HistoryOnlyGrows ==
    /\ \A r \in Registrations :
          Extends(registerQuest(Manager, r.questDef, r.scope, r.ctx, 0).pastQuests,
                  pastQuests)
    /\ \A id \in Instances :
          Extends(unregisterQuest(Manager, id).pastQuests, pastQuests)
    /\ \A player \in PlayerRefs :
          Extends(resetPlayer(Manager, player).pastQuests, pastQuests)
    /\ \A e \in Events : Extends(AfterEvent(e).pastQuests, pastQuests)
    /\ \A initialQuests \in InitialQuests :
          \A rolls \in InitRolls(initialQuests) :
              Extends(init(Manager, initialQuests, rolls).pastQuests, pastQuests)

\* An instance completed, entered history, and is in neither list after a
\* later init.
C30_HistoryDropped ==
    \E id \in Instances :
        /\ life[id].completions = 1
        /\ inst[id].currentProgress.state = Completed
        /\ ~IsPast(Manager, id)

----------------------------------------------------------------------------
\* The tracked list holds the player of the given id.
Tracks(players, n) == \E i \in 1 .. Len(players) : GetObjId(players[i]) = n

\* C31.  When a tracked player leaves the game, the Player-scoped instance
\* bound to that player is removed from the active list: after the step
\* that takes player n off the tracked list no active instance is bound to
\* n.
C31_LeaverHasNoActiveQuest ==
    [][\A n \in PlayerIds :
          (Tracks(g_activePlayers, n) /\ ~Tracks(g_activePlayers', n)) =>
              \A i \in 1 .. Len(activeQuests') :
                  LET q == inst'[activeQuests'[i]]
                  IN ~(/\ q.scope = ScopePlayer
                       /\ q.player # Undefined
                       /\ GetObjId(q.player) = n)]_vars

\* A player who is not tracked has an active Player-scoped instance in
\* progress, and a speed token from an application of a timed boost whose
\* player left while it was pending is recorded.
C31_LeaverKeepsQuest ==
    \E id \in Instances :
        /\ IsActive(Manager, id)
        /\ inst[id].scope = ScopePlayer
        /\ inst[id].currentProgress.state = InProgress
        /\ ~Tracks(g_activePlayers, GetObjId(inst[id].player))
        /\ \E t \in DOMAIN applied : applied[t].left

----------------------------------------------------------------------------
\* The names of the shipped templates of the two variants.
ShippedQuests == {"firstBlood", "pistolKills", "pistol", "selfDamage"}

\* The target a shipped template gives its instances.
ShippedTarget(name) == IF name = "pistolKills" THEN 10 ELSE 1

\* The Progress of instance q is within its template's bounds.
ProgressInBounds(q) ==
    /\ 0 <= q.currentProgress.current
    /\ q.currentProgress.current <= q.currentProgress.target
    /\ q.currentProgress.target >= 1
    /\ q.currentProgress.target = ShippedTarget(q.quest)

\* C32.  Every instance of a shipped template has 0 <= current <= target
\* and target >= 1, and its target is the template's default target (1
\* when the template names none), in every reachable state and after every
\* event delivered next.
C32_ProgressInBounds ==
    /\ \A id \in Instances :
          inst[id].quest \in ShippedQuests => ProgressInBounds(inst[id])
    /\ \A e \in Events : \A id \in Instances :
          inst[id].quest \in ShippedQuests =>
              ProgressInBounds(AfterEvent(e).inst[id])

\* A pistol-kills instance has reached its ten kills and a first-blood
\* instance its single one.
C32_Witness ==
    \E a \in Instances : \E b \in Instances :
        /\ inst[a].quest = "pistolKills"
        /\ inst[a].currentProgress.current = 10
        /\ inst[a].currentProgress.target = 10
        /\ inst[b].quest = "firstBlood"
        /\ inst[b].currentProgress.current = 1
        /\ inst[b].currentProgress.target = 1

----------------------------------------------------------------------------
\* Instance q is bound to the player that reference stands for.
BoundTo(q, player) ==
    q.player # Undefined /\ GetObjId(q.player) = GetObjId(player)

\* C33.  resetPlayer(P) removes from the active list exactly the instances
\* bound to player P and leaves everything else as it was: the instances
\* bound to other players, every Squad- and Team-scoped instance, the Game
\* slot, history, the instances themselves and the id counter.
C33_ResetPlayerRemovesOnlyBound ==
    \A player \in PlayerRefs :
        LET m == resetPlayer(Manager, player)
        IN /\ m.activeQuests
                = SelectSeq(activeQuests, LAMBDA id : ~BoundTo(inst[id], player))
           /\ m.activeGlobalQuest = activeGlobalQuest
           /\ m.pastQuests = pastQuests
           /\ m.inst = inst
           /\ m.nextId = nextId

\* A Team-scoped instance and a Player-scoped instance are active, and
\* resetting the player of the second removes both from the active list.
C33_ResetDropsTeamQuest ==
    \E a \in Instances : \E b \in Instances :
        /\ IsActive(Manager, a) /\ IsActive(Manager, b)
        /\ inst[a].scope = ScopeTeam
        /\ inst[b].scope = ScopePlayer
        /\ resetPlayer(Manager, inst[b].player).activeQuests = << >>

----------------------------------------------------------------------------
\* The ids a suspended call holds in its list relevantQuests.
SnapshotOf(call) == {call.quests[k] : k \in 1 .. Len(call.quests)}

\* The Progress of a newly constructed instance.
IsFresh(q) ==
    q.currentProgress.state = NotStarted /\ q.currentProgress.current = 0

\* C34.  The instances an event updates are fixed before any of them is
\* processed.  A suspended updatePlayer call never holds in its list the
\* instance its own callbacks registered.  In every step, an instance
\* constructed in the step is fresh at its end; the Progress of an older
\* instance changes only if the instance is in the list of the call that
\* resumes, or, when a call starts, was active before the step; and a call
\* that resumes and suspends again keeps its list.
C34_UpdatedSetFixed ==
    /\ [](\A k \in 1 .. Len(calls) :
            calls[k].registered # Undefined =>
                /\ calls[k].registered \notin SnapshotOf(calls[k])
                /\ \A id \in SnapshotOf(calls[k]) : id < calls[k].registered)
    /\ [][/\ \A id \in 1 .. Len(inst') :
               IF id > Len(inst)
               THEN IsFresh(inst'[id])
               ELSE inst'[id].currentProgress # inst[id].currentProgress =>
                        IF Len(calls') > Len(calls)
                        THEN IsActive(AsyncManager, id)
                        ELSE calls # << >> /\ id \in SnapshotOf(Head(calls))
          /\ (calls # << >> /\ calls' # calls /\ Len(calls') = Len(calls)) =>
                calls'[Len(calls')].quests = Head(calls).quests]_vars

\* A self-damage instance completed and is in history; the instance its
\* onComplete registered holds the Game slot, started and still fresh, and
\* no call is suspended: the event that completed the first has ended
\* without running the second.
C34_Witness ==
    /\ calls = << >>
    /\ \E old \in Instances : \E new \in Instances :
          /\ old < new
          /\ inst[old].quest = SelfDamageQuestDefinition.name
          /\ IsPast(AsyncManager, old)
          /\ activeGlobalQuest = new
          /\ inst[new].quest = SelfDamageQuestDefinition.name
          /\ IsFresh(inst[new])
          /\ life[new].started = 1

----------------------------------------------------------------------------
RECURSIVE SelfDamagesUpTo(_)
\* The self-damage events run on the instances of ids up to n.
SelfDamagesUpTo(n) ==
    IF n = 0 THEN 0 ELSE life[n].selfDamages + SelfDamagesUpTo(n - 1)

\* init has run and no call is suspended.
SelfDamageIdle == inst # << >> /\ calls = << >>

C35_OverlapArchivesTwice ==
    /\ SelfDamageIdle
    /\ pastQuests = <<1, 1>>
    /\ activeGlobalQuest = 3
    /\ inst[2].currentProgress.state # Completed

----------------------------------------------------------------------------
\* The ids of the players the hooks are called with.
HookPlayerIds == {GetObjId(p) : p \in HookPlayers}

\* The active Player-scoped instances bound to the player of id n.
PlayerQuestsOf(n) ==
    {i \in 1 .. Len(activeQuests) :
        /\ inst[activeQuests[i]].scope = ScopePlayer
        /\ inst[activeQuests[i]].player # Undefined
        /\ GetObjId(inst[activeQuests[i]].player) = n}

\* Player id n has at most one active Player-scoped instance, and none if
\* the player is an AI soldier.
AtMostOneQuest(n) ==
    /\ Cardinality(PlayerQuestsOf(n)) <= 1
    /\ (\E p \in HookPlayers : GetObjId(p) = n /\ isPlayerAi(p)) =>
           PlayerQuestsOf(n) = {}

\* C36.  With quests assigned through the game hooks only, every player id
\* the engine reports has at most one active Player-scoped instance in
\* every reachable state, and AI players have none.
C36_OneQuestPerPlayer == \A n \in HookPlayerIds : AtMostOneQuest(n)

\* The same for the player ids that are not negative.
C36_OneQuestPerTrackablePlayer ==
    \A n \in HookPlayerIds : n >= 0 => AtMostOneQuest(n)

\* The player of id -1 has two active Player-scoped instances.
C36_TwoQuestsForNegativeId == Cardinality(PlayerQuestsOf(-1)) = 2

----------------------------------------------------------------------------
\* The active Player-scoped instances of manager state m bound to the
\* player of id n.
ActiveOf(m, n) ==
    {id \in DOMAIN m.inst :
        /\ \E i \in 1 .. Len(m.activeQuests) : m.activeQuests[i] = id
        /\ m.inst[id].scope = ScopePlayer
        /\ m.inst[id].player # Undefined
        /\ GetObjId(m.inst[id].player) = n}

\* What holds of manager state m when OnGameModeStarted has finished with
\* the tracked list players, the instances up to id last having been
\* constructed before init ran: the Game slot holds a first-blood instance,
\* every tracked player who is not an AI soldier has exactly one active
\* Player-scoped instance, with current 0, no tracked AI soldier has one,
\* and no instance constructed before init ran is active or in history.
StartedFresh(m, players, last) ==
    /\ m.activeGlobalQuest # Undefined
    /\ m.inst[m.activeGlobalQuest].quest = firstBlood_Quest.name
    /\ m.inst[m.activeGlobalQuest].scope = ScopeGame
    /\ m.inst[m.activeGlobalQuest].currentProgress.current = 0
    /\ \A i \in 1 .. Len(players) :
          IF isPlayerAi(players[i])
          THEN ActiveOf(m, GetObjId(players[i])) = {}
          ELSE /\ Cardinality(ActiveOf(m, GetObjId(players[i]))) = 1
               /\ \A id \in ActiveOf(m, GetObjId(players[i])) :
                     m.inst[id].currentProgress.current = 0
    /\ \A id \in DOMAIN m.inst : id <= last => ~IsActive(m, id) /\ ~IsPast(m, id)

\* C37.  However join, deploy, kill and leave events interleave with the
\* wait inside OnGameModeStarted, when OnGameModeStarted finishes the Game
\* slot holds the first-blood instance and every tracked non-AI player has
\* exactly one active Player-scoped instance with current 0; the quests
\* assigned and the progress made before init ran are discarded.
C37_GameModeStartedFresh ==
    [][(gameMode = "waiting" /\ gameMode' = "started") =>
          StartedFresh([inst |-> inst', activeQuests |-> activeQuests',
                        pastQuests |-> pastQuests',
                        activeGlobalQuest |-> activeGlobalQuest'],
                       g_activePlayers', Len(inst))]_vars

\* OnGameModeStarted has just finished: the two humans and the AI soldier
\* are tracked, the first instance was assigned during the wait and has a
\* counted kill, and the three instances constructed since are the Game
\* slot's and the humans', all with current 0.
C37_Witness ==
    /\ gameMode = "started"
    /\ Len(inst) = 4
    /\ Len(g_activePlayers) = 3
    /\ inst[1].scope = ScopePlayer
    /\ inst[1].currentProgress.current = 1
    /\ StartedFresh(Manager, g_activePlayers, 1)
    /\ Cardinality(ActiveOf(Manager, 1) \cup ActiveOf(Manager, 4)) = 2

----------------------------------------------------------------------------
\* The place of a lifecycle state in the order NotStarted, InProgress,
\* Completed.
StateRank(state) ==
    CASE state = NotStarted -> 0
      [] state = InProgress -> 1
      [] state = Completed -> 2

\* C38.  The lifecycle state of an instance of a shipped template only
\* moves forward, NotStarted then InProgress then Completed, and its current
\* never decreases: no step takes an instance to an earlier state or to a
\* smaller current, so that once the update pipeline has run on it (which
\* makes it InProgress at least) it is never NotStarted again.
C38_StateMovesForward ==
    [][\A id \in DOMAIN inst :
          inst[id].quest \in ShippedQuests =>
              /\ StateRank(inst'[id].currentProgress.state) >=
                     StateRank(inst[id].currentProgress.state)
              /\ inst'[id].currentProgress.current >=
                     inst[id].currentProgress.current]_vars

----------------------------------------------------------------------------
\* The template of instance id has no perk pool of its own, so that its
\* perk is drawn from PerkRegistry.
PoolLess(id) == ~QuestDefinition(inst[id].quest).hasPerkPool

\* No Game-scoped instance of a template without its own pool has a bound
\* perk or has had one applied, and no event applies a perk for one.
GameQuestsHaveNoPerk ==
    /\ \A id \in Instances :
          (PoolLess(id) /\ inst[id].scope = ScopeGame) =>
              /\ inst[id].perkInstance = NoPerk
              /\ life[id].perkApplies = 0
    /\ \A e \in Events :
          LET m == AfterEvent(e)
          IN \A k \in 1 .. Len(m.out.perks) :
                ~(/\ PoolLess(m.out.perks[k].id)
                  /\ inst[m.out.perks[k].id].scope = ScopeGame)

C39_DisabledPerkUnbound ==
    \E id \in Instances :
        /\ PoolLess(id)
        /\ inst[id].scope \in AllQuestScopes
        /\ QuestDefinition(inst[id].quest).disableRandomPerk
        /\ inst[id].perkInstance = NoPerk

----------------------------------------------------------------------------
\* The token an application to the given player would be issued now.
NextTokenFor(player, durationSeconds) ==
    applyTemporarySpeedMultiplier(Speed, player, BoostSpeed,
                                  durationSeconds).tokens[GetObjId(player)]

\* C40.  In every reachable state of the speed mechanism: tokens are issued
\* in strictly increasing order and never reused (the applications so far
\* hold tokens 1, 2, ... in the order they were made, the pending timers
\* carry increasing tokens, and the next application is issued a token
\* above every token on record or in a timer); the token on record for a
\* player, when there is one, is that of the most recent application to
\* the player; and when the most recent application to a player is a timed
\* one and the player is boosted, a timer carrying exactly the token on
\* record is pending.
C40_TokensFreshAndTimersPending ==
    /\ g_nextSpeedToken = Len(applied) + 1
    /\ \A i \in 1 .. Len(timers) :
          /\ timers[i].token < g_nextSpeedToken
          /\ \A j \in 1 .. Len(timers) : i < j => timers[i].token < timers[j].token
    /\ \A player \in PlayerRefs : \A durationSeconds \in {0, BoostDuration} :
          LET token == NextTokenFor(player, durationSeconds)
          IN /\ token = g_nextSpeedToken
             /\ \A pid \in PlayerIds : g_playerSpeedTokens[pid] < token
             /\ \A i \in 1 .. Len(timers) : timers[i].token < token
    /\ \A pid \in PlayerIds :
          /\ g_playerSpeedTokens[pid] # Undefined =>
                /\ TokensOf(pid) # {}
                /\ g_playerSpeedTokens[pid] = LatestOf(pid)
          /\ (/\ TokensOf(pid) # {}
              /\ applied[LatestOf(pid)].timed
              /\ speedMultiplier[pid] = BoostSpeed) =>
                /\ g_playerSpeedTokens[pid] # Undefined
                /\ \E i \in 1 .. Len(timers) :
                      /\ timers[i].token = g_playerSpeedTokens[pid]
                      /\ timers[i].playerId = pid

\* Two timed applications to one player, the wait of the first over and
\* stale: the player is boosted under the second token, which is on record
\* and carried by the one pending timer.
C40_Witness ==
    \E a \in Tokens : \E b \in Tokens :
        /\ b = a + 1
        /\ applied[a].playerId = applied[b].playerId
        /\ applied[a].timed /\ applied[b].timed
        /\ applied[a].fired /\ ~applied[a].reverted /\ ~applied[b].fired
        /\ g_playerSpeedTokens[applied[b].playerId] = b
        /\ speedMultiplier[applied[b].playerId] = BoostSpeed
        /\ Len(timers) = 1
        /\ timers[1].token = b
====
